---------------------------- MODULE Spec2Model ----------------------------
(***************************************************************************)
(* A model of the spreadsheet plotter `sp`: the operator library           *)
(* (opeseq.rs), the column store (datasheet.rs), the checkpoint cache      *)
(* (cachefile.rs) and the pipeline driver (plotter.rs).                    *)
(*                                                                         *)
(* f64 values are modelled as extended rationals <<n, d>> in lowest terms  *)
(* with d >= 0: d > 0 is the finite value n/d, <<1,0>> is +inf, <<-1,0>>   *)
(* is -inf and <<0,0>> is NaN.  Rounding is not modelled.                  *)
(* Operator-sequence strings are sequences of one-character strings.       *)
(***************************************************************************)
EXTENDS Integers, Sequences, FiniteSets, TLC

\* Bounds of the model.
MaxRows == 2
MaxApplied == 3
MaxSeqLen == 3
MaxRuns == 2
MaxLines == 2
MaxLineLen == 2
MaxStrLen == 4

VARIABLES
    sheet,      \* Plotter.ds: the live Datasheet handed from operator to operator
    hist,       \* the transforms applied in this run: [t, in, res] per application
    cache,      \* the files: the source spreadsheet, the index file, the payloads
    plotter,    \* the other fields of the Plotter, the loop index and the outcome
    state_cache, \* what StateCacheReader::read returned to this run, and the line selected
    stdout,     \* what the run wrote to standard output
    nruns       \* the number of runs started

vars == <<sheet, hist, cache, plotter, state_cache, stdout, nruns>>

(***************************************************************************)
(* Result<T>: Ok(v), Err(e), or a panic of the process.                    *)
(***************************************************************************)
Ok(v) == [tag |-> "Ok", val |-> v]
Err(e) == [tag |-> "Err", val |-> e]
Panic(e) == [tag |-> "Panic", val |-> e]
IsOk(r) == r.tag = "Ok"

\* Option<usize> for Datasheet.sorted_by: None, or the column index.
None == -1

(***************************************************************************)
(* f64 arithmetic on extended rationals.                                   *)
(***************************************************************************)
Abs(n) == IF n < 0 THEN -n ELSE n
Sign(n) == IF n < 0 THEN -1 ELSE IF n > 0 THEN 1 ELSE 0

RECURSIVE GCD(_, _)
GCD(a, b) == IF b = 0 THEN a ELSE GCD(b, a % b)

\* The value n/d in lowest terms (d may be negative or zero on entry).
Norm(n, d) ==
    IF d = 0 THEN <<Sign(n), 0>>
    ELSE LET s == Sign(d) * Sign(n)
             g == GCD(Abs(n), Abs(d))
         IN <<s * (Abs(n) \div g), Abs(d) \div g>>

F(n) == <<n, 1>>
NaN == <<0, 0>>
PosInf == <<1, 0>>

is_finite(a) == a[2] # 0
IsNaN(a) == a = NaN

FNeg(a) == <<-a[1], a[2]>>

FAdd(a, b) ==
    IF IsNaN(a) \/ IsNaN(b) THEN NaN
    ELSE IF ~is_finite(a) /\ ~is_finite(b) THEN (IF a = b THEN a ELSE NaN)
    ELSE IF ~is_finite(a) THEN a
    ELSE IF ~is_finite(b) THEN b
    ELSE Norm(a[1] * b[2] + b[1] * a[2], a[2] * b[2])

FSub(a, b) == FAdd(a, FNeg(b))

FDiv(a, b) ==
    IF IsNaN(a) \/ IsNaN(b) THEN NaN
    ELSE IF ~is_finite(a) /\ ~is_finite(b) THEN NaN
    ELSE IF ~is_finite(a) THEN <<a[1] * (IF b[1] < 0 THEN -1 ELSE 1), 0>>
    ELSE IF ~is_finite(b) THEN F(0)
    ELSE Norm(a[1] * b[2], a[2] * b[1])

\* a == b on f64: NaN equals nothing.
FEq(a, b) == ~IsNaN(a) /\ ~IsNaN(b) /\ a = b

\* a < b on f64: false when either is NaN.
FLt(a, b) ==
    IF IsNaN(a) \/ IsNaN(b) THEN FALSE
    ELSE IF ~is_finite(a) THEN a[1] < 0 /\ b # a
    ELSE IF ~is_finite(b) THEN b[1] > 0
    ELSE a[1] * b[2] < b[1] * a[2]

FGt(a, b) == FLt(b, a)

(***************************************************************************)
(* Datasheet (datasheet.rs).  Columns are stored column-wise; column 0 is  *)
(* x and column 1 is y (TLA+ sequences are 1-based, so columns[1] is x).   *)
(***************************************************************************)
Datasheet_new(headers, columns, sorted_by) ==
    [headers |-> headers, columns |-> columns, sorted_by |-> sorted_by]

XCol == 0
YCol == 1

Col(ds, c) == ds.columns[c + 1]
Hdr(ds, c) == ds.headers[c + 1]
HasCol(ds, c) == c + 1 <= Len(ds.columns)

is_sortable(col) == \A k \in 1..Len(col) : is_finite(col[k])

\* The permutation a stable ascending sort of col applies: sorted_index[k] is
\* the row that ends at place k.
StableSortedIndex(col) ==
    LET n == Len(col)
        Before(i, j) == FLt(col[i], col[j]) \/ (~FLt(col[j], col[i]) /\ i < j)
        Rank(i) == Cardinality({j \in 1..n : Before(j, i)}) + 1
    IN [k \in 1..n |-> CHOOSE i \in 1..n : Rank(i) = k]

Permute(col, idx) == [k \in 1..Len(idx) |-> col[idx[k]]]

Datasheet_sort(ds, col) ==
    IF ds.sorted_by # None /\ ds.sorted_by = col THEN Ok(ds)
    ELSE IF ~HasCol(ds, col) THEN Panic("index out of bounds")
    ELSE IF ~is_sortable(Col(ds, col)) THEN Err("contains INF/NAN")
    ELSE LET sorted_index == StableSortedIndex(Col(ds, col))
         IN Ok([ds EXCEPT
                  !.columns = [i \in 1..Len(ds.columns) |->
                                  Permute(ds.columns[i], sorted_index)],
                  !.sorted_by = col])

Datasheet_is_unique(ds, col) ==
    IF ds.sorted_by = None \/ ds.sorted_by # col THEN Err("not sorted")
    ELSE IF ~HasCol(ds, col) THEN Panic("index out of bounds")
    ELSE IF Len(Col(ds, col)) = 0 THEN Panic("slice start out of range")
    ELSE Ok(\A k \in 1..(Len(Col(ds, col)) - 1) :
                ~FEq(Col(ds, col)[k], Col(ds, col)[k + 1]))

Datasheet_exchange_column(ds, i, j) ==
    IF ~HasCol(ds, i) \/ ~HasCol(ds, j) THEN Panic("index out of bounds")
    ELSE Ok([ds EXCEPT
               !.columns = [k \in 1..Len(ds.columns) |->
                               IF k = i + 1 THEN ds.columns[j + 1]
                               ELSE IF k = j + 1 THEN ds.columns[i + 1]
                               ELSE ds.columns[k]],
               !.headers = [k \in 1..Len(ds.headers) |->
                               IF k = i + 1 THEN ds.headers[j + 1]
                               ELSE IF k = j + 1 THEN ds.headers[i + 1]
                               ELSE ds.headers[k]]])


(***************************************************************************)
(* Transform operators (opeseq.rs).  A Transform is a record               *)
(* [op |-> "c"], ..., or [op |-> "d", window |-> w].                       *)
(***************************************************************************)
Min(a, b) == IF a < b THEN a ELSE b

CDF_names(xname, yname) == <<yname, "CDF">>
Derivation_names(xname, yname) == <<xname, yname \o ":Derivation">>
Integral_names(xname, yname) == <<xname, yname \o ":Integral">>
Merge_names(xname, yname) == <<xname, yname \o ":Merge">>
Rotate_names(xname, yname) == <<yname, xname>>
Step_names(xname, yname) == <<xname, yname \o ":Step">>
Sort_names(xname, yname) == <<xname, yname>>

Transform_get_converted_column_names(t, xname, yname) ==
    CASE t.op = "c" -> CDF_names(xname, yname)
      [] t.op = "d" -> Derivation_names(xname, yname)
      [] t.op = "i" -> Integral_names(xname, yname)
      [] t.op = "m" -> Merge_names(xname, yname)
      [] t.op = "r" -> Rotate_names(xname, yname)
      [] t.op = "s" -> Step_names(xname, yname)
      [] t.op = "o" -> Sort_names(xname, yname)

\* Ranks counted from zero: (i - 1) / len.
CDFRanks_zero_based(n) == [i \in 1..n |-> Norm(i - 1, n)]

\* yval of the CDF: i / len for i in 1..=len.
CDFRanks(n) == [i \in 1..n |-> Norm(i, n)]

CDFOperator_apply(ds, x, y) ==
    IF ~HasCol(ds, y) THEN Panic("index out of bounds")
    ELSE IF ~is_sortable(Col(ds, y)) THEN Err("y column contains INF/NAN.")
    ELSE LET xval == Permute(Col(ds, y), StableSortedIndex(Col(ds, y)))
             yval == CDFRanks(Len(xval))
         IN Ok(Datasheet_new(CDF_names(Hdr(ds, x), Hdr(ds, y)),
                             <<xval, yval>>, x))

\* A scan that keeps the first row as the anchor of every later row.
RECURSIVE DerivationScanFirstAnchor(_, _, _, _, _, _)
DerivationScanFirstAnchor(xs, ys, window, k, anchor, out) ==
    IF k > Min(Len(xs), Len(ys)) THEN out
    ELSE IF anchor = <<>>
      THEN DerivationScanFirstAnchor(xs, ys, window, k + 1, <<xs[k], ys[k]>>, out)
    ELSE IF FGt(FAdd(anchor[1], window), xs[k])
      THEN DerivationScanFirstAnchor(xs, ys, window, k + 1, anchor, out)
    ELSE LET derivation == FDiv(FSub(ys[k], anchor[2]), FSub(xs[k], anchor[1]))
         IN DerivationScanFirstAnchor(xs, ys, window, k + 1, anchor,
                           <<Append(out[1], xs[k]), Append(out[2], derivation)>>)

\* The scan and fold of DerivationOperator::apply over rows k.. with the
\* anchor (start_x, start_y); anchor = <<>> is (None, None).
RECURSIVE DerivationScan(_, _, _, _, _, _)
DerivationScan(xs, ys, window, k, anchor, out) ==
    IF k > Min(Len(xs), Len(ys)) THEN out
    ELSE IF anchor = <<>>
      THEN DerivationScan(xs, ys, window, k + 1, <<xs[k], ys[k]>>, out)
    ELSE IF FGt(FAdd(anchor[1], window), xs[k])
      THEN DerivationScan(xs, ys, window, k + 1, anchor, out)
    ELSE LET derivation == FDiv(FSub(ys[k], anchor[2]), FSub(xs[k], anchor[1]))
         IN DerivationScan(xs, ys, window, k + 1, <<xs[k], ys[k]>>,
                           <<Append(out[1], xs[k]), Append(out[2], derivation)>>)

DerivationOperator_apply(window, ds0, x, y) ==
    LET sorted == Datasheet_sort(ds0, x)
    IN IF ~IsOk(sorted) THEN sorted
       ELSE LET ds == sorted.val
                uniq == Datasheet_is_unique(ds, x)
            IN IF ~IsOk(uniq) THEN uniq
               ELSE IF ~uniq.val THEN Err("contains duplicated values.")
               ELSE IF ~HasCol(ds, y) THEN Panic("index out of bounds")
               ELSE LET out == DerivationScan(Col(ds, x), Col(ds, y), window,
                                              1, <<>>, <<<<>>, <<>>>>)
                    IN Ok(Datasheet_new(
                            Derivation_names(Hdr(ds, x), Hdr(ds, y)), out, x))

\* scan(0.0, |acc, &y| acc += y): the running sums of ys.
RECURSIVE RunningSum(_, _, _)
RunningSum(ys, k, acc) ==
    IF k > Len(ys) THEN <<>>
    ELSE <<FAdd(acc, ys[k])>> \o RunningSum(ys, k + 1, FAdd(acc, ys[k]))

IntegralOperator_apply(ds0, x, y) ==
    LET sorted == Datasheet_sort(ds0, x)
    IN IF ~IsOk(sorted) THEN sorted
       ELSE LET ds == sorted.val
                uniq == Datasheet_is_unique(ds, x)
            IN IF ~IsOk(uniq) THEN uniq
               ELSE IF ~uniq.val THEN Err("contains duplicated values.")
               ELSE IF ~HasCol(ds, y) THEN Panic("index out of bounds")
               ELSE Ok(Datasheet_new(
                         Integral_names(Hdr(ds, x), Hdr(ds, y)),
                         <<Col(ds, x), RunningSum(Col(ds, y), 1, F(0))>>, x))

\* The for_each of MergeOperator::apply over rows k.. with the open run
\* (prev_x, acc); prev = <<>> is None.  The open run is pushed at the end.
RECURSIVE MergeLoop(_, _, _, _, _)
MergeLoop(xs, ys, k, prev, out) ==
    IF k > Min(Len(xs), Len(ys))
      THEN IF prev = <<>> THEN out
           ELSE <<Append(out[1], prev[1]), Append(out[2], prev[2])>>
    ELSE IF prev = <<>>
      THEN MergeLoop(xs, ys, k + 1, <<xs[k], ys[k]>>, out)
    ELSE IF FEq(prev[1], xs[k])
      THEN MergeLoop(xs, ys, k + 1, <<prev[1], FAdd(prev[2], ys[k])>>, out)
    ELSE MergeLoop(xs, ys, k + 1, <<xs[k], ys[k]>>,
                   <<Append(out[1], prev[1]), Append(out[2], prev[2])>>)

\* A Merge that sorts by x before collapsing runs.
MergeOperator_apply_presorted(ds, x, y) ==
    IF ~HasCol(ds, x) \/ ~HasCol(ds, y) THEN Panic("index out of bounds")
    ELSE LET order == StableSortedIndex(Col(ds, x))
         IN Ok(Datasheet_new(Merge_names(Hdr(ds, x), Hdr(ds, y)),
                             MergeLoop(Permute(Col(ds, x), order),
                                       Permute(Col(ds, y), order), 1, <<>>,
                                       <<<<>>, <<>>>>),
                             None))

MergeOperator_apply(ds, x, y) ==
    IF ~HasCol(ds, x) \/ ~HasCol(ds, y) THEN Panic("index out of bounds")
    ELSE Ok(Datasheet_new(Merge_names(Hdr(ds, x), Hdr(ds, y)),
                          MergeLoop(Col(ds, x), Col(ds, y), 1, <<>>,
                                    <<<<>>, <<>>>>),
                          None))

RotateOperator_apply(ds, x, y) == Datasheet_exchange_column(ds, x, y)

StepOperator_apply(ds, x, y) ==
    IF ~HasCol(ds, y) \/ ~HasCol(ds, x) THEN Panic("index out of bounds")
    ELSE LET ycol == Col(ds, y)
             yval == [k \in 1..(IF Len(ycol) = 0 THEN 0 ELSE Len(ycol) - 1) |->
                         FSub(ycol[k + 1], ycol[k])]
         IN IF Len(Col(ds, x)) = 0 THEN Panic("slice start out of range")
            ELSE Ok(Datasheet_new(Step_names(Hdr(ds, x), Hdr(ds, y)),
                                  <<Tail(Col(ds, x)), yval>>, None))

\* A Sort that reverses the rows instead of ordering them.
SortOperator_apply_reversing(ds, x, y) ==
    IF ~HasCol(ds, x) THEN Panic("index out of bounds")
    ELSE Ok([ds EXCEPT !.columns =
                [c \in 1..Len(ds.columns) |->
                    [k \in 1..Len(ds.columns[c]) |->
                        ds.columns[c][Len(ds.columns[c]) + 1 - k]]]])

SortOperator_apply(ds, x, y) == Datasheet_sort(ds, x)

Transform_apply(t, ds, x, y) ==
    CASE t.op = "c" -> CDFOperator_apply(ds, x, y)
      [] t.op = "d" -> DerivationOperator_apply(t.window, ds, x, y)
      [] t.op = "i" -> IntegralOperator_apply(ds, x, y)
      [] t.op = "m" -> MergeOperator_apply(ds, x, y)
      [] t.op = "r" -> RotateOperator_apply(ds, x, y)
      [] t.op = "s" -> StepOperator_apply(ds, x, y)
      [] t.op = "o" -> SortOperator_apply(ds, x, y)


(***************************************************************************)
(* Operator-sequence strings (opeseq.rs): Op::from_str, the Operator       *)
(* constructors, OpSeq::new, OpSeq::to_string and OpSeq::match_split.      *)
(***************************************************************************)
LowerCase == {"a", "b", "c", "d", "e", "f", "g", "h", "i", "j", "k", "l", "m",
              "n", "o", "p", "q", "r", "s", "t", "u", "v", "w", "x", "y", "z"}
UpperCase == {"A", "B", "C", "D", "E", "F", "G", "H", "I", "J", "K", "L", "M",
              "N", "O", "P", "Q", "R", "S", "T", "U", "V", "W", "X", "Y", "Z"}
DigitChars == <<"0", "1", "2", "3", "4", "5", "6", "7", "8", "9">>

is_ascii_alphabetic(c) == c \in LowerCase \cup UpperCase
is_ascii_lowercase(c) == c \in LowerCase
is_ascii_uppercase(c) == c \in UpperCase
IsDigit(c) == \E k \in 1..10 : DigitChars[k] = c
DigitVal(c) == (CHOOSE k \in 1..10 : DigitChars[k] = c) - 1

\* s[a..b] with 0-based, end-exclusive byte offsets, as Rust slices a str.
Slice(s, a, b) == SubSeq(s, a + 1, b)
starts_with(s, p) == Len(p) <= Len(s) /\ SubSeq(s, 1, Len(p)) = p

RECURSIVE Pow10(_)
Pow10(k) == IF k = 0 THEN 1 ELSE 10 * Pow10(k - 1)

RECURSIVE DigitsValue(_)
DigitsValue(ds) ==
    IF ds = <<>> THEN 0
    ELSE 10 * DigitsValue(SubSeq(ds, 1, Len(ds) - 1)) + DigitVal(ds[Len(ds)])

\* str::parse::<f64> on the decimal strings the model writes: an optional
\* sign, digits with at most one '.', and at least one digit.
ParseF64(str) ==
    LET signed == str # <<>> /\ str[1] \in {"-", "+"}
        body == IF signed THEN Tail(str) ELSE str
        dots == {k \in 1..Len(body) : body[k] = "."}
        dot == IF dots = {} THEN Len(body) + 1 ELSE CHOOSE k \in dots : TRUE
        int == SubSeq(body, 1, dot - 1)
        frac == SubSeq(body, dot + 1, Len(body))
    IN IF \/ Cardinality(dots) > 1
          \/ \E k \in 1..Len(body) : ~IsDigit(body[k]) /\ body[k] # "."
          \/ Len(int) + Len(frac) = 0
         THEN Err("invalid float literal")
       ELSE LET mag == Norm(DigitsValue(int) * Pow10(Len(frac)) + DigitsValue(frac),
                            Pow10(Len(frac)))
            IN Ok(IF signed /\ str[1] = "-" THEN FNeg(mag) ELSE mag)

\* str::split(','): the pieces between the commas (one more than commas).
RECURSIVE SplitComma(_)
SplitComma(str) ==
    LET commas == {k \in 1..Len(str) : str[k] = ","}
    IN IF commas = {} THEN <<str>>
       ELSE LET k == CHOOSE c \in commas : \A d \in commas : c <= d
            IN <<SubSeq(str, 1, k - 1)>> \o SplitComma(SubSeq(str, k + 1, Len(str)))

\* Op::from_str: the operator at the head of s with its arguments, and the
\* number of characters consumed.
Op_from_str(s) ==
    IF s = <<>> THEN Err("Empty string")
    ELSE IF ~is_ascii_alphabetic(s[1]) THEN Err("Non-alphabetic operator")
    ELSE LET rest == Tail(s)
             alpha == {k \in 1..Len(rest) : is_ascii_alphabetic(rest[k])}
             i == IF alpha = {} THEN Len(s) - 1
                  ELSE (CHOOSE k \in alpha : \A j \in alpha : k <= j) - 1
         IN IF i = 0 THEN Ok([op |-> s[1], arg |-> <<>>, len |-> 1])
            ELSE LET parts == SplitComma(Slice(s, 1, 1 + i))
                     parsed == [k \in 1..Len(parts) |-> ParseF64(parts[k])]
                 IN IF \E k \in 1..Len(parts) : ~IsOk(parsed[k])
                      THEN Err("invalid float literal")
                    ELSE Ok([op |-> s[1],
                             arg |-> [k \in 1..Len(parts) |-> parsed[k].val],
                             len |-> 1 + i])

DerivationOperator_new(window) ==
    IF ~is_finite(window) \/ ~FGt(window, F(0))
      THEN Err("Window value must be a positive finite number")
    ELSE Ok([kind |-> "Transform", op |-> "d", window |-> window])

Transform_from_op(op) ==
    IF op.op \in {"c", "i", "m", "o", "r", "s"}
      THEN Ok([kind |-> "Transform", op |-> op.op])
    ELSE IF op.op = "d"
      THEN IF Len(op.arg) = 0 THEN Err("Derivation: smooth window size not provided")
           ELSE DerivationOperator_new(op.arg[1])
    ELSE Err("Unknown transform operator")

Dump_from_op(op) ==
    IF op.op \in {"P", "C", "O"} THEN Ok([kind |-> "Dump", op |-> op.op])
    ELSE Err("Unknown dump operator")

Operator_from_op(op) ==
    IF is_ascii_lowercase(op.op) THEN Transform_from_op(op)
    ELSE IF is_ascii_uppercase(op.op) THEN Dump_from_op(op)
    ELSE Err("Unknown operator")

\* OpSeq::str_to_ops followed by the map over Operator::from_op of OpSeq::new.
\* str_to_ops fails first, on the first Op it cannot read; then the first
\* operator that does not validate fails.
RECURSIVE str_to_ops(_)
Pushed(op, rest) == IF ~IsOk(rest) THEN rest ELSE Ok(<<op>> \o rest.val)
StrToOpsFrom(s, first) ==
    IF ~IsOk(first) THEN first
    ELSE Pushed(first.val, str_to_ops(SubSeq(s, first.val.len + 1, Len(s))))
str_to_ops(s) == IF s = <<>> THEN Ok(<<>>) ELSE StrToOpsFrom(s, Op_from_str(s))

\* collect::<Result<Vec<_>, _>>(): the values, or the first error.
Collect(results) ==
    LET bad == {k \in 1..Len(results) : ~IsOk(results[k])}
    IN IF bad # {} THEN results[CHOOSE k \in bad : \A j \in bad : k <= j]
       ELSE Ok([k \in 1..Len(results) |-> results[k].val])

OperatorsFrom(ops) ==
    IF ~IsOk(ops) THEN ops
    ELSE Collect([k \in 1..Len(ops.val) |-> Operator_from_op(ops.val[k])])

OpSeq_new(s) == OperatorsFrom(str_to_ops(s))

Checked(r) == IF IsOk(r) THEN Ok(TRUE) ELSE r
OpSeq_check_string(s) == Checked(OpSeq_new(s))

\* Display of a u64 and of a finite non-negative f64 with a finite decimal
\* expansion: no exponent, no trailing ".0".
RECURSIVE NatToString(_)
NatToString(n) ==
    IF n < 10 THEN <<DigitChars[n + 1]>>
    ELSE NatToString(n \div 10) \o <<DigitChars[(n % 10) + 1]>>

RECURSIVE FracToString(_, _)
FracToString(n, d) ==
    IF n = 0 THEN <<>>
    ELSE <<DigitChars[((10 * n) \div d) + 1]>> \o FracToString((10 * n) % d, d)

F64_to_string(v) ==
    IF v[2] = 0
      THEN IF v[1] = 0 THEN <<"N", "a", "N">>
           ELSE IF v[1] > 0 THEN <<"i", "n", "f">> ELSE <<"-", "i", "n", "f">>
    ELSE LET whole == Abs(v[1]) \div v[2]
             rem == Abs(v[1]) % v[2]
         IN (IF v[1] < 0 THEN <<"-">> ELSE <<>>)
            \o NatToString(whole)
            \o (IF rem = 0 THEN <<>> ELSE <<".">> \o FracToString(rem, v[2]))

\* The String made of the characters of a sequence.
RECURSIVE Str(_)
Str(chars) == IF chars = <<>> THEN "" ELSE chars[1] \o Str(Tail(chars))

\* An operator rendered as its opcode alone.
Operator_to_string_opcode(o) == <<o.op>>

Operator_to_string(o) ==
    IF o.op = "d" THEN <<"d">> \o F64_to_string(o.window) ELSE <<o.op>>

\* OpSeq::to_string(until_index, include_dump) after take_n = until_index + 1
\* has been computed: the first take_n operators, rendered.
RECURSIVE RenderOps(_, _, _)
RenderOps(ops, take_n, include_dump) ==
    IF take_n = 0 \/ ops = <<>> THEN <<>>
    ELSE (IF ops[1].kind = "Dump" /\ ~include_dump THEN <<>>
          ELSE Operator_to_string(ops[1]))
         \o RenderOps(Tail(ops), take_n - 1, include_dump)

\* The non-upper-case characters of a string, each with its 0-based index.
NonDumpChars(str) ==
    LET keep == {k \in 1..Len(str) : ~is_ascii_uppercase(str[k])}
    IN [r \in 1..Cardinality(keep) |->
           LET k == CHOOSE a \in keep : Cardinality({b \in keep : b < a}) = r - 1
           IN <<str[k], k - 1>>]

\* The fold of OpSeq::match_split over the zipped iterators, from pair k on.
RECURSIVE MatchFold(_, _, _, _)
MatchFold(pairs, sub, k, res) ==
    IF k > Min(Len(pairs), Len(sub)) THEN res
    ELSE MatchFold(pairs, sub, k + 1,
                   IF res # None /\ pairs[k][1] = sub[k][1]
                     THEN pairs[k][2] + 1 ELSE None)

\* OpSeq::match_split: Some((sub_opseq_str, split_pos)) or None.
SplitAt(sub_opseq_str, match_res) ==
    IF match_res # None THEN <<sub_opseq_str, match_res>> ELSE <<>>
OpSeq_match_split(opseq_str, sub_opseq_str) ==
    SplitAt(sub_opseq_str,
            MatchFold(NonDumpChars(opseq_str), NonDumpChars(sub_opseq_str), 1, 0))

\* OpSeq::get_converted_column_names: the names after the transforms of
\* opseq_str, or the parse error.
RECURSIVE ConvertNames(_, _)
ConvertNames(ops, names) ==
    IF ops = <<>> THEN names
    ELSE ConvertNames(Tail(ops),
                      IF ops[1].kind = "Transform"
                        THEN Transform_get_converted_column_names(
                                 ops[1], names[1], names[2])
                        ELSE names)

NamesAfter(ops, xname, yname) ==
    IF ~IsOk(ops) THEN ops ELSE Ok(ConvertNames(ops.val, <<xname, yname>>))
OpSeq_get_converted_column_names(xname, yname, opseq_str) ==
    NamesAfter(OpSeq_new(opseq_str), xname, yname)

(***************************************************************************)
(* CSV files and datasheet formats (datasheet.rs).  A CSV file is its      *)
(* header record and its data records; a numeric field is identified with  *)
(* the f64 it is the shortest round-trip rendering of, and a field that is *)
(* not a number is the value Text.                                         *)
(***************************************************************************)
Text == <<2, 0>>

\* record[i].parse::<f64>().unwrap_or(0.0)
ParseField(cell) == IF cell = Text THEN F(0) ELSE cell

\* Datasheet::read_csv_into_columns: the first record fixes the number of
\* columns; no record, no column.  The reader is not flexible: a record
\* whose length differs from the first record of the file is an error.
read_csv_into_columns(rows) ==
    IF rows = <<>> THEN <<>>
    ELSE [j \in 1..Len(rows[1]) |-> [k \in 1..Len(rows) |-> ParseField(rows[k][j])]]

UnequalLengths(csv) ==
    LET all == (IF csv.headers = <<>> THEN <<>> ELSE <<csv.headers>>) \o csv.rows
    IN \E k \in 1..Len(all) : Len(all[k]) # Len(all[1])

\* The text of a field, read as a column name.
FieldName(cell) == IF cell = Text THEN "text" ELSE Str(F64_to_string(cell))

\* With a header the first record of the file gives the names, whatever it
\* holds.
Datasheet_from_csv_with_header(csv) ==
    IF UnequalLengths(csv) THEN Err("Failed to read record")
    ELSE IF csv.headers # <<>> \/ csv.rows = <<>>
      THEN Ok(Datasheet_new(csv.headers, read_csv_into_columns(csv.rows), None))
    ELSE Ok(Datasheet_new([j \in 1..Len(csv.rows[1]) |-> FieldName(csv.rows[1][j])],
                          read_csv_into_columns(Tail(csv.rows)), None))

\* Without a header the header line is one more data record, and the names
\* are the numbers 1 .. columns.len() - 1.
Datasheet_from_csv_without_header(csv) ==
    IF UnequalLengths(csv) THEN Err("Failed to read record")
    ELSE LET first == IF csv.headers = <<>> THEN <<>>
                      ELSE <<[j \in 1..Len(csv.headers) |-> Text]>>
             columns == read_csv_into_columns(first \o csv.rows)
         IN Ok(Datasheet_new([k \in 1..(Len(columns) - 1) |-> ToString(k)],
                             columns, None))

Datasheet_from_csv(csv, has_header) ==
    IF has_header THEN Datasheet_from_csv_with_header(csv)
    ELSE Datasheet_from_csv_without_header(csv)

\* Datasheet::to_csv: the header record if asked, then one record per row
\* of the first column.  It indexes columns[0] without a check.
Datasheet_to_csv(ds, write_header) ==
    IF ds.columns = <<>> THEN Panic("index out of bounds: columns[0]")
    ELSE Ok([headers |-> IF write_header THEN ds.headers ELSE <<>>,
             rows |-> [k \in 1..Len(ds.columns[1]) |->
                          [j \in 1..Len(ds.columns) |-> ds.columns[j][k]]]])

\* Datasheet::set_column_name
Datasheet_set_column_name(ds, index, name) ==
    IF index + 1 > Len(ds.headers) THEN Panic("index out of bounds: headers")
    ELSE Ok([ds EXCEPT !.headers[index + 1] = name])

CSV(has_header) == [fmt |-> "csv", has_header |-> has_header, opseq_str |-> <<>>]
SPLNK(opseq_str) == [fmt |-> "lnk", has_header |-> TRUE, opseq_str |-> opseq_str]

DataSheetFormat_new(fmt, has_header, opseq_str) ==
    IF fmt = "lnk" THEN Ok(SPLNK(opseq_str))
    ELSE IF fmt = "csv" THEN Ok(CSV(has_header))
    ELSE Err("Unknown datasheet format")

\* DataSheetFormat::to_string, as the pieces splitn(2, ' ') cuts the line in.
DataSheetFormat_to_string(f) ==
    IF f.fmt = "csv" THEN <<"csv", IF f.has_header THEN "true" ELSE "false">>
    ELSE <<"lnk()">>

\* DataSheetFormat::from_str: the second piece is unwrapped unchecked.
DataSheetFormat_from_str(line) ==
    IF Len(line) < 2 THEN Panic("called Option::unwrap() on a None value")
    ELSE IF line[2] \notin {"true", "false"} THEN Err("Error parsing has_header")
    ELSE DataSheetFormat_new(line[1], line[2] = "true", <<>>)

DataSheetFormat_get_fmt_str(f) == f.fmt
DataSheetFormat_has_header(f) == IF f.fmt = "csv" THEN f.has_header ELSE TRUE

(***************************************************************************)
(* Column expressions (column.rs): the lexer, the recursive-descent        *)
(* parser, the evaluator and process_column_expressions_on_datasheet.      *)
(* A parser state is the current token and the lexer position.             *)
(***************************************************************************)
FMul(a, b) ==
    IF IsNaN(a) \/ IsNaN(b) THEN NaN
    ELSE IF ~is_finite(a) \/ ~is_finite(b)
      THEN <<Sign(a[1]) * Sign(b[1]), 0>>
    ELSE Norm(a[1] * b[1], a[2] * b[2])

\* a % b on f64: the remainder has the sign of the dividend.
FRem(a, b) ==
    IF ~is_finite(a) \/ IsNaN(b) \/ b[1] = 0 THEN NaN
    ELSE IF ~is_finite(b) THEN a
    ELSE LET n == Abs(a[1]) * b[2]
             m == Abs(b[1]) * a[2]
         IN Norm(Sign(a[1]) * (n % m), a[2] * b[2])

\* a.powf(b) for an integer exponent; other exponents leave the rationals.
RECURSIVE FPowNat(_, _)
FPowNat(a, k) == IF k = 0 THEN F(1) ELSE FMul(a, FPowNat(a, k - 1))

FPow(a, b) ==
    IF b = F(0) \/ a = F(1) THEN F(1)
    ELSE IF IsNaN(a) \/ IsNaN(b) THEN NaN
    ELSE IF is_finite(b) /\ b[2] = 1
      THEN IF b[1] > 0 THEN FPowNat(a, b[1]) ELSE FDiv(F(1), FPowNat(a, -b[1]))
    ELSE NaN

OperatorChars == {"+", "-", "*", "/", "%", "^", "(", ")"}
is_operator(c) == c \in OperatorChars
is_whitespace(c) == c = " "

Tok(t) == [t |-> t, n |-> F(0), i |-> 0]
NumberTok(n) == [t |-> "Number", n |-> n, i |-> 0]
ColumnTok(i) == [t |-> "Column", n |-> F(0), i |-> i]
Lexed(tok, pos) == [tag |-> "Ok", tok |-> tok, pos |-> pos]

\* Datasheet::get_column_index: rev_headers maps a name to the first column
\* carrying it.
Datasheet_get_column_index(ds, name) ==
    LET at == {k \in 1..Len(ds.headers) : ds.headers[k] = name}
    IN IF at = {} THEN None ELSE (CHOOSE k \in at : \A j \in at : k <= j) - 1

excel_column_name_to_index(str) ==
    LET Letter(c) == CHOOSE k \in 1..26 :
                        c \in {<<"a", "b", "c", "d", "e", "f", "g", "h", "i",
                                 "j", "k", "l", "m", "n", "o", "p", "q", "r",
                                 "s", "t", "u", "v", "w", "x", "y", "z">>[k],
                               <<"A", "B", "C", "D", "E", "F", "G", "H", "I",
                                 "J", "K", "L", "M", "N", "O", "P", "Q", "R",
                                 "S", "T", "U", "V", "W", "X", "Y", "Z">>[k]}
        Sum[k \in 0..Len(str)] == IF k = 0 THEN 0 ELSE Sum[k - 1] * 26 + Letter(str[k])
    IN IF \A k \in 1..Len(str) : is_ascii_alphabetic(str[k])
         THEN Ok(Sum[Len(str)])
       ELSE Err("InvalidColumnReference")

\* The end (exclusive, 1-based) of the run of characters from position p on
\* that belong to keep.
RECURSIVE RunEndFrom(_, _, _)
RunEndFrom(input, p, keep) ==
    IF p <= Len(input) /\ input[p] \in keep THEN RunEndFrom(input, p + 1, keep) ELSE p

\* The '@' branch of Lexer::next_token from position p on: the name
\* collected so far, with '\' escaping the next character.
RECURSIVE LexName(_, _, _)
LexName(input, p, name) ==
    IF p > Len(input) THEN [tag |-> "Ok", name |-> name, pos |-> p]
    ELSE IF input[p] = "\\"
      THEN IF p + 1 > Len(input)
             THEN Panic("called Option::unwrap() on a None value")
           ELSE LexName(input, p + 2, Append(name, input[p + 1]))
    ELSE IF input[p] = "@" THEN [tag |-> "Ok", name |-> name, pos |-> p + 1]
    ELSE LexName(input, p + 1, Append(name, input[p]))

\* The number branch of Lexer::next_token: the scan after the first char.
RECURSIVE LexNumber(_, _, _)
LexNumber(input, p, has_dot) ==
    IF p > Len(input) THEN Ok(p)
    ELSE IF IsDigit(input[p]) THEN LexNumber(input, p + 1, has_dot)
    ELSE IF input[p] = "." /\ ~has_dot THEN LexNumber(input, p + 1, TRUE)
    ELSE IF is_whitespace(input[p]) \/ is_operator(input[p]) THEN Ok(p)
    ELSE Err("InvalidNumber")

\* Lexer::next_token: input is the character vector, position the 1-based
\* place of the next character.
Lexer_next_token(input, position, ds) ==
    LET p == RunEndFrom(input, position, {" "})
    IN IF p > Len(input) THEN Lexed(Tok("Eof"), p)
       ELSE LET c == input[p]
            IN IF is_operator(c) THEN Lexed(Tok(c), p + 1)
               ELSE IF c = "#"
                 THEN LET alnum == {DigitChars[k] : k \in 1..10}
                                        \cup LowerCase \cup UpperCase
                          e == RunEndFrom(input, p + 1, alnum)
                          index_str == SubSeq(input, p + 1, e - 1)
                      IN IF index_str = <<>> THEN Err("Empty column reference")
                         ELSE IF is_ascii_alphabetic(index_str[1])
                           THEN LET index == excel_column_name_to_index(index_str)
                                IN IF ~IsOk(index) THEN index
                                   ELSE Lexed(ColumnTok(index.val), e)
                         ELSE IF \E k \in 1..Len(index_str) : ~IsDigit(index_str[k])
                           THEN Err("Invalid column index")
                         ELSE Lexed(ColumnTok(DigitsValue(index_str)), e)
               ELSE IF c = "@"
                 THEN LET nm == LexName(input, p + 1, <<>>)
                      IN IF ~IsOk(nm) THEN nm
                         ELSE IF nm.name = <<>> THEN Err("Empty column name")
                         ELSE LET at == Datasheet_get_column_index(ds, Str(nm.name))
                              IN IF at = None THEN Err("Unknown column name")
                                 ELSE Lexed(ColumnTok(at + 1), nm.pos)
               ELSE IF IsDigit(c) \/ c = "."
                 THEN LET e == LexNumber(input, p + 1, c = ".")
                      IN IF ~IsOk(e) THEN e
                         ELSE LET num_str == SubSeq(input, p, e.val - 1)
                              IN IF \A k \in 1..Len(num_str) : ~IsDigit(num_str[k])
                                   THEN Err("InvalidNumber")
                                 ELSE Lexed(NumberTok(ParseF64(num_str).val), e.val)
               ELSE Err("InvalidCharacter")

Parsed(expr, tok, pos) == [tag |-> "Ok", expr |-> expr, tok |-> tok, pos |-> pos]

RECURSIVE parse_factor(_, _, _, _)
RECURSIVE parse_expression(_, _, _, _)
RECURSIVE parse_exponent_loop(_, _, _, _, _)
RECURSIVE parse_term_loop(_, _, _, _, _)
RECURSIVE parse_expression_loop(_, _, _, _, _)

\* Parser::parse_exponent: a factor, then any number of '^' factor.
ExponentMore(input, expr, rhs, ds) ==
    IF ~IsOk(rhs) THEN rhs
    ELSE parse_exponent_loop(input,
                             [e |-> "Exponentiate", a |-> expr, b |-> rhs.expr],
                             rhs.tok, rhs.pos, ds)
ExponentRhs(input, expr, next, ds) ==
    IF ~IsOk(next) THEN next
    ELSE ExponentMore(input, expr, parse_factor(input, next.tok, next.pos, ds), ds)
parse_exponent_loop(input, expr, tok, pos, ds) ==
    IF tok.t # "^" THEN Parsed(expr, tok, pos)
    ELSE ExponentRhs(input, expr, Lexer_next_token(input, pos, ds), ds)
ExponentFrom(input, lhs, ds) ==
    IF ~IsOk(lhs) THEN lhs
    ELSE parse_exponent_loop(input, lhs.expr, lhs.tok, lhs.pos, ds)
parse_exponent(input, tok, pos, ds) ==
    ExponentFrom(input, parse_factor(input, tok, pos, ds), ds)

\* Parser::parse_term: an exponent, then any number of '*', '/', '%' exponent.
TermMore(input, node, expr, rhs, ds) ==
    IF ~IsOk(rhs) THEN rhs
    ELSE parse_term_loop(input, [e |-> node, a |-> expr, b |-> rhs.expr],
                         rhs.tok, rhs.pos, ds)
TermRhs(input, node, expr, next, ds) ==
    IF ~IsOk(next) THEN next
    ELSE TermMore(input, node, expr,
                  parse_exponent(input, next.tok, next.pos, ds), ds)
parse_term_loop(input, expr, tok, pos, ds) ==
    IF tok.t \notin {"*", "/", "%"} THEN Parsed(expr, tok, pos)
    ELSE TermRhs(input,
                 IF tok.t = "*" THEN "Multiply"
                 ELSE IF tok.t = "/" THEN "Divide" ELSE "Modulus",
                 expr, Lexer_next_token(input, pos, ds), ds)
TermFrom(input, lhs, ds) ==
    IF ~IsOk(lhs) THEN lhs
    ELSE parse_term_loop(input, lhs.expr, lhs.tok, lhs.pos, ds)
parse_term(input, tok, pos, ds) ==
    TermFrom(input, parse_exponent(input, tok, pos, ds), ds)

\* Parser::parse_expression: a term, then any number of '+', '-' term.
ExpressionMore(input, node, expr, rhs, ds) ==
    IF ~IsOk(rhs) THEN rhs
    ELSE parse_expression_loop(input, [e |-> node, a |-> expr, b |-> rhs.expr],
                               rhs.tok, rhs.pos, ds)
ExpressionRhs(input, node, expr, next, ds) ==
    IF ~IsOk(next) THEN next
    ELSE ExpressionMore(input, node, expr,
                        parse_term(input, next.tok, next.pos, ds), ds)
parse_expression_loop(input, expr, tok, pos, ds) ==
    IF tok.t \notin {"+", "-"} THEN Parsed(expr, tok, pos)
    ELSE ExpressionRhs(input, IF tok.t = "+" THEN "Add" ELSE "Subtract",
                       expr, Lexer_next_token(input, pos, ds), ds)
ExpressionFrom(input, lhs, ds) ==
    IF ~IsOk(lhs) THEN lhs
    ELSE parse_expression_loop(input, lhs.expr, lhs.tok, lhs.pos, ds)
parse_expression(input, tok, pos, ds) ==
    ExpressionFrom(input, parse_term(input, tok, pos, ds), ds)

\* Parser::parse_factor: '-' factor, a number, a column, or '(' expression
\* ')'; `next` is the token eat() moves to.
Negated(inner) ==
    IF ~IsOk(inner) THEN inner
    ELSE Parsed([e |-> "UnaryNegate", a |-> inner.expr], inner.tok, inner.pos)
Closed(expr, after) ==
    IF after.tag = "Err" THEN Err("MismatchedParentheses")
    ELSE IF ~IsOk(after) THEN after
    ELSE Parsed(expr, after.tok, after.pos)
Grouped(input, inner, ds) ==
    IF ~IsOk(inner) THEN inner
    ELSE IF inner.tok.t # ")" THEN Err("MismatchedParentheses")
    ELSE Closed(inner.expr, Lexer_next_token(input, inner.pos, ds))
FactorAt(input, tok, next, ds) ==
    IF tok.t \notin {"-", "Number", "Column", "("} THEN Err("UnexpectedToken")
    ELSE IF ~IsOk(next) THEN next
    ELSE IF tok.t = "-" THEN Negated(parse_factor(input, next.tok, next.pos, ds))
    ELSE IF tok.t = "Number"
      THEN Parsed([e |-> "Number", n |-> tok.n], next.tok, next.pos)
    ELSE IF tok.t = "Column"
      THEN Parsed([e |-> "Column", i |-> tok.i], next.tok, next.pos)
    ELSE Grouped(input, parse_expression(input, next.tok, next.pos, ds), ds)
parse_factor(input, tok, pos, ds) ==
    FactorAt(input, tok, Lexer_next_token(input, pos, ds), ds)

\* compile_expression: Parser::new reads the first token, parse_expression
\* must stop at the end of the input.
AtEof(parsed) ==
    IF ~IsOk(parsed) THEN parsed
    ELSE IF parsed.tok.t # "Eof" THEN Err("UnexpectedToken")
    ELSE Ok(parsed.expr)
CompileFrom(expression, first, ds) ==
    IF ~IsOk(first) THEN first
    ELSE AtEof(parse_expression(expression, first.tok, first.pos, ds))
compile_expression(expression, ds) ==
    CompileFrom(expression, Lexer_next_token(expression, 1, ds), ds)

check_finite(v) == IF is_finite(v) THEN Ok(v) ELSE Err("NonFiniteNumber")

\* Expr::evaluate on row `row` (0-based).  `*i - 1` underflows for column 0:
\* a panic where overflow checks are compiled in, a wrap to usize::MAX (no
\* such column) where they are not.
RECURSIVE Expr_evaluate(_, _, _, _)
Expr_evaluate(expr, columns, row, overflow_checks) ==
    IF expr.e = "Number" THEN check_finite(expr.n)
    ELSE IF expr.e = "Column"
      THEN IF expr.i = 0 /\ overflow_checks
             THEN Panic("attempt to subtract with overflow")
           ELSE IF expr.i = 0 \/ expr.i > Len(columns) THEN Err("ColumnNotFound")
           ELSE IF row + 1 > Len(columns[expr.i]) THEN Err("RowIndexOutOfBounds")
           ELSE check_finite(columns[expr.i][row + 1])
    ELSE LET a == Expr_evaluate(expr.a, columns, row, overflow_checks)
         IN IF ~IsOk(a) THEN a
            ELSE IF expr.e = "UnaryNegate" THEN check_finite(FNeg(a.val))
            ELSE LET b == Expr_evaluate(expr.b, columns, row, overflow_checks)
                 IN IF ~IsOk(b) THEN b
                    ELSE check_finite(
                        CASE expr.e = "Add" -> FAdd(a.val, b.val)
                          [] expr.e = "Subtract" -> FSub(a.val, b.val)
                          [] expr.e = "Multiply" -> FMul(a.val, b.val)
                          [] expr.e = "Divide" -> FDiv(a.val, b.val)
                          [] expr.e = "Modulus" -> FRem(a.val, b.val)
                          [] expr.e = "Exponentiate" -> FPow(a.val, b.val))

\* Expr::constant_result: Some(value), or no value.
Expr_constant_result(expr, overflow_checks) ==
    IF expr.e = "Number" THEN Ok(expr.n)
    ELSE Expr_evaluate(expr, <<>>, 1, overflow_checks)

expression_is_constant(expr) ==
    \A k \in 1..Len(expr) : expr[k] \notin {"#", "@"}

\* The closure wrap_expr returns, called.
RECURSIVE EvaluateRows(_, _, _, _, _)
PushResult(r, expr, columns, row, results, overflow_checks) ==
    IF ~IsOk(r) THEN r
    ELSE EvaluateRows(expr, columns, row + 1, Append(results, r.val),
                      overflow_checks)
EvaluateRows(expr, columns, row, results, overflow_checks) ==
    IF row >= Len(columns[1]) THEN Ok(results)
    ELSE PushResult(Expr_evaluate(expr, columns, row, overflow_checks),
                    expr, columns, row, results, overflow_checks)

wrap_expr(expr, ds, overflow_checks) ==
    IF ds.columns = <<>> THEN Ok(<<>>)
    ELSE IF \E k \in 1..Len(ds.columns) : Len(ds.columns[k]) # Len(ds.columns[1])
      THEN Err("ColumnsDifferentLengths")
    ELSE EvaluateRows(expr, ds.columns, 0, <<>>, overflow_checks)

\* vec![expr.constant_result().unwrap(); ds.columns[0].len()]
Repeated(c, ds) ==
    IF ~IsOk(c) THEN Panic("called Option::unwrap() on a None value")
    ELSE IF ds.columns = <<>> THEN Panic("index out of bounds: columns[0]")
    ELSE Ok([k \in 1..Len(ds.columns[1]) |-> c.val])

\* One of the two result vectors of process_column_expressions_on_datasheet.
ExpressionResults(expr, expr_str, ds, overflow_checks) ==
    IF expression_is_constant(expr_str)
      THEN Repeated(Expr_constant_result(expr, overflow_checks), ds)
    ELSE wrap_expr(expr, ds, overflow_checks)

NewSheet(xexpr_str, yexpr_str, xresults, yresults) ==
    IF ~IsOk(xresults) THEN xresults
    ELSE IF ~IsOk(yresults) THEN yresults
    ELSE Ok(Datasheet_new(<<Str(xexpr_str), Str(yexpr_str)>>,
                          <<xresults.val, yresults.val>>, None))

Compiled(ds, xexpr_str, yexpr_str, xexpr, yexpr, overflow_checks) ==
    IF ~IsOk(xexpr) THEN xexpr
    ELSE IF ~IsOk(yexpr) THEN yexpr
    ELSE NewSheet(xexpr_str, yexpr_str,
                  ExpressionResults(xexpr.val, xexpr_str, ds, overflow_checks),
                  ExpressionResults(yexpr.val, yexpr_str, ds, overflow_checks))

process_column_expressions_on_datasheet(ds, xexpr_str, yexpr_str, overflow_checks) ==
    Compiled(ds, xexpr_str, yexpr_str, compile_expression(xexpr_str, ds),
             compile_expression(yexpr_str, ds), overflow_checks)

(***************************************************************************)
(* The cache directory (cachefile.rs): the index file "splnk", a header of *)
(* five lines followed by one operator-sequence line per checkpoint, and   *)
(* one payload file per checkpoint.                                        *)
(***************************************************************************)
SourcePath == <<"data.csv">>
SplnkPath == <<"splnk">>

\* The file that holds the payload of a checkpoint: one file per key.
state_cache_filename(key) == <<"cache">> \o key

NoSplnk == [exists |-> FALSE, header |-> <<>>, lines |-> <<>>]

StateCacheHeader_new(ds_path, xexpr, yexpr, ds_in_format, input_has_header, ds_out_format, opseq_str) ==
    LET in == DataSheetFormat_new(ds_in_format, input_has_header, opseq_str)
        out == DataSheetFormat_new(ds_out_format, TRUE, <<>>)
    IN IF ~IsOk(in) THEN in
       ELSE IF ~IsOk(out) THEN out
       ELSE Ok([ds_path |-> ds_path, xexpr |-> xexpr, yexpr |-> yexpr,
                ds_in_format |-> in.val, ds_out_format |-> out.val])

\* StateCacheHeader::to_string: the five header lines.
StateCacheHeader_to_string(h) ==
    [ds_path |-> h.ds_path, xexpr |-> h.xexpr, yexpr |-> h.yexpr,
     ds_in_format |-> DataSheetFormat_to_string(h.ds_in_format),
     ds_out_format |-> DataSheetFormat_to_string(h.ds_out_format)]

StateCacheHeader_from_reader(text) ==
    LET in == DataSheetFormat_from_str(text.ds_in_format)
        out == DataSheetFormat_from_str(text.ds_out_format)
    IN IF ~IsOk(in) THEN in
       ELSE IF ~IsOk(out) THEN out
       ELSE Ok([ds_path |-> text.ds_path, xexpr |-> text.xexpr,
                yexpr |-> text.yexpr,
                ds_in_format |-> in.val, ds_out_format |-> out.val])

\* A reader that checks each line on its own and not against the line before.
ReadLines_unchecked(lines, k, opseq_cache) ==
    IF \A j \in k..Len(lines) : IsOk(OpSeq_check_string(lines[j]))
      THEN Ok(opseq_cache \o SubSeq(lines, k, Len(lines)))
    ELSE Err("Invalid operator")

\* The loop of StateCacheReader::read over the lines after the header.
RECURSIVE ReadLines(_, _, _)
PushLine(chk, lines, k, opseq_cache) ==
    IF ~IsOk(chk) THEN chk
    ELSE ReadLines(lines, k + 1, Append(opseq_cache, lines[k]))
ReadLines(lines, k, opseq_cache) ==
    IF k > Len(lines) THEN Ok(opseq_cache)
    ELSE IF opseq_cache = <<>>
            \/ starts_with(lines[k], opseq_cache[Len(opseq_cache)])
      THEN PushLine(OpSeq_check_string(lines[k]), lines, k, opseq_cache)
    ELSE Err("Bad state cache file: non-incremetal operation sequence")

StateCache(header, opseq_cache) ==
    IF ~IsOk(header) THEN header
    ELSE IF ~IsOk(opseq_cache) THEN opseq_cache
    ELSE Ok([header |-> header.val, opseq_cache |-> opseq_cache.val])

StateCacheReader_read(file) ==
    IF ~file.exists THEN Err("No such file or directory")
    ELSE StateCache(StateCacheHeader_from_reader(file.header),
                    ReadLines(file.lines, 1, <<>>))

\* The same search without rev(): the first line that matches.
FindFirstMatch(opseq_str, opseq_cache, k) ==
    IF \A j \in 1..k : OpSeq_match_split(opseq_str, opseq_cache[j]) = <<>>
      THEN <<>>
    ELSE OpSeq_match_split(
             opseq_str,
             opseq_cache[CHOOSE j \in 1..k :
                            /\ OpSeq_match_split(opseq_str, opseq_cache[j]) # <<>>
                            /\ \A i \in 1..(j - 1) :
                                  OpSeq_match_split(opseq_str, opseq_cache[i]) = <<>>])

\* sc.opseq_cache.iter().rev().find_map(|s| OpSeq::match_split(opseq_str, s))
RECURSIVE FindLastMatch(_, _, _)
FoundOrEarlier(m, opseq_str, opseq_cache, k) ==
    IF m # <<>> THEN m ELSE FindLastMatch(opseq_str, opseq_cache, k - 1)
FindLastMatch(opseq_str, opseq_cache, k) ==
    IF k = 0 THEN <<>>
    ELSE FoundOrEarlier(OpSeq_match_split(opseq_str, opseq_cache[k]),
                        opseq_str, opseq_cache, k)

(***************************************************************************)
(* The file system the program works on: the source spreadsheet, and the   *)
(* cache directory with its index file and its payload files.              *)
(***************************************************************************)
ReadFile(fs, path) ==
    IF path = SourcePath THEN Ok(fs.source)
    ELSE IF path \in DOMAIN fs.files THEN Ok(fs.files[path])
    ELSE Err("No such file or directory")

\* File::create: the file exists and is empty.
EmptyFile == [headers |-> <<>>, rows |-> <<>>]
CreateFile(files, path) == [q \in DOMAIN files \cup {path} |->
                               IF q = path THEN EmptyFile ELSE files[q]]
WriteFile(files, path, content) == [q \in DOMAIN files \cup {path} |->
                                       IF q = path THEN content ELSE files[q]]

NoLoad == [some |-> FALSE, xexpr |-> <<>>, yexpr |-> <<>>,
           opseq_skip_len |-> 0, matched |-> <<>>]

\* Datasheet::read: Ok([ds, load_info]) with load_info the CacheLoadInfo (and
\* the index line that matched) or NoLoad.
RECURSIVE Datasheet_read(_, _, _)

Unloaded(ds) ==
    IF ~IsOk(ds) THEN ds ELSE Ok([ds |-> ds.val, load_info |-> NoLoad])
ReadCsv(csv_content, has_header) ==
    IF ~IsOk(csv_content) THEN csv_content
    ELSE Unloaded(Datasheet_from_csv(csv_content.val, has_header))

\* The Some arm: the payload of the matched line, renamed.
Loaded(sc, m, ds2) ==
    IF ~IsOk(ds2) THEN ds2
    ELSE Ok([ds |-> ds2.val,
             load_info |-> [some |-> TRUE,
                            xexpr |-> sc.header.xexpr, yexpr |-> sc.header.yexpr,
                            opseq_skip_len |-> m[2], matched |-> m[1]]])
Named(sc, m, ds1, yname) ==
    IF ~IsOk(ds1) THEN ds1
    ELSE Loaded(sc, m, Datasheet_set_column_name(ds1.val, 1, yname))
Restored(sc, m, loaded, names) ==
    IF ~IsOk(loaded) THEN loaded
    ELSE IF ~IsOk(names) THEN names
    ELSE Named(sc, m, Datasheet_set_column_name(loaded.val.ds, 0, names.val[1]),
               names.val[2])

\* The None arm: the source named by the header, read again.
Restarted(source) ==
    IF ~IsOk(source) THEN source
    ELSE Ok([ds |-> source.val.ds, load_info |-> NoLoad])

Matched(opseq_str, sc, m, fs) ==
    IF m # <<>>
      THEN Restored(sc, m,
                    Datasheet_read(sc.header.ds_out_format,
                                   state_cache_filename(m[1]), fs),
                    OpSeq_get_converted_column_names(
                        Str(sc.header.xexpr), Str(sc.header.yexpr),
                        Slice(opseq_str, 0, m[2])))
    ELSE Restarted(Datasheet_read(sc.header.ds_in_format, sc.header.ds_path, fs))

Lookup(opseq_str, sc, fs) ==
    IF ~IsOk(sc) THEN sc
    ELSE Matched(opseq_str, sc.val,
                 FindLastMatch(opseq_str, sc.val.opseq_cache,
                               Len(sc.val.opseq_cache)), fs)

Datasheet_read(fmt, filename, fs) ==
    IF fmt.fmt = "csv" THEN ReadCsv(ReadFile(fs, filename), fmt.has_header)
    ELSE Lookup(fmt.opseq_str,
                IF filename = SplnkPath THEN StateCacheReader_read(fs.splnk)
                ELSE Err("No such file or directory"),
                fs)

(***************************************************************************)
(* The pipeline driver (plotter.rs).                                       *)
(***************************************************************************)
NoSheet == Datasheet_new(<<>>, <<>>, None)

Assembled(ds_path, ops_str, xexpr, yexpr, ds_in_format, ds_out_format, info, ds, ops) ==
    IF ~IsOk(ds) THEN ds
    ELSE IF ~IsOk(ops) THEN ops
    ELSE Ok([ds |-> ds.val,
             skipped_ops_str |-> Slice(ops_str, 0, info.opseq_skip_len),
             ops |-> ops.val,
             xexpr |-> IF info.some THEN info.xexpr ELSE xexpr,
             yexpr |-> IF info.some THEN info.yexpr ELSE yexpr,
             ds_path |-> ds_path,
             ds_in_format |-> ds_in_format,
             ds_out_format |-> ds_out_format,
             load_info |-> info])

Read(ds_path, ops_str, xexpr, yexpr, ds_in_format, ds_out_format, rd, overflow_checks) ==
    IF ~IsOk(rd) THEN rd
    ELSE Assembled(ds_path, ops_str, xexpr, yexpr, ds_in_format, ds_out_format,
                   rd.val.load_info,
                   IF rd.val.load_info.some THEN Ok(rd.val.ds)
                   ELSE process_column_expressions_on_datasheet(
                            rd.val.ds, xexpr, yexpr, overflow_checks),
                   OpSeq_new(Slice(ops_str, rd.val.load_info.opseq_skip_len,
                                   Len(ops_str))))

\* Plotter::new, with the plot-only shortcut compiled out (build.rs does not
\* set CONFIG_PLOT_ONLY_MODE_ENABLED).
Plotter_new(ds_path, ops_str, xexpr, yexpr, ds_in_format, ds_out_format, fs, overflow_checks) ==
    Read(ds_path, ops_str, xexpr, yexpr, ds_in_format, ds_out_format,
         Datasheet_read(ds_in_format, ds_path, fs), overflow_checks)

SeqsUpTo(S, n) == UNION {[1..k -> S] : k \in 0..n}

\* The record p less its field f.
Without(p, f) == [g \in (DOMAIN p) \ {f} |-> p[g]]

IdlePlotter ==
    [pc |-> "idle", ops_str |-> <<>>, skipped_ops_str |-> <<>>, ops |-> <<>>,
     i |-> 0, xexpr |-> <<>>, yexpr |-> <<>>, ds_path |-> <<>>,
     ds_in_format |-> CSV(TRUE), ds_out_format |-> CSV(TRUE), splnk |-> FALSE,
     load_info |-> NoLoad, error |-> "", ds |-> NoSheet]

\* What a run saw of the index: the result of StateCacheReader::read and the
\* result of the find_map over its lines (<<>> is None).
NotRead == [tag |-> "None", val |-> [header |-> <<>>, opseq_cache |-> <<>>],
            matched |-> <<>>]
Seen(sc, opseq_str) ==
    [tag |-> sc.tag, val |-> sc.val,
     matched |-> IF IsOk(sc)
                   THEN FindLastMatch(opseq_str, sc.val.opseq_cache,
                                      Len(sc.val.opseq_cache))
                 ELSE <<>>]

\* How a run that returned r ends: Err is reported by main, a panic aborts.
Outcome(r) == IF r.tag = "Panic" THEN "panicked" ELSE "failed"

\* A loop that would return after its first operator.
After_returning(i) == "done"

\* The position after operator i: the loop goes on or is exhausted.
After(i) == IF i + 1 >= Len(plotter.ops) THEN "done" ELSE "run"

\* The inputs of the runs.
RequestChars == {"c", "o", "r", "5", "C", "O", "P"}
Requests == SeqsUpTo(RequestChars, MaxSeqLen)
ExprPairs == {<<<<"#", "1">>, <<"#", "2">>>>}
\* The expressions of the command line: a run on an index may give other
\* expressions than the run that wrote the index.
CommandLineExprs(fmt) ==
    IF fmt = "lnk" THEN ExprPairs \cup {<<<<"#", "2">>, <<"#", "1">>>>} ELSE ExprPairs
InputHasHeader == {TRUE}

SourceFiles ==
    { [headers |-> <<"a", "b">>,
       rows |-> <<<<F(2), F(1)>>, <<F(1), F(2)>>>>],
      [headers |-> <<"a", "b">>, rows |-> <<>>] }

Init ==
    /\ cache \in {[source |-> f, splnk |-> NoSplnk, files |-> <<>>] : f \in SourceFiles}
    /\ sheet = NoSheet
    /\ hist = <<>>
    /\ plotter = Without(IdlePlotter, "ds")
    /\ state_cache = NotRead
    /\ stdout = <<>>
    /\ nruns = 0

\* The Plotter of a run whose Plotter::new returned r.
Started(r, ops_str, xexpr, yexpr, ds_path, ifmt, ofmt) ==
    IF IsOk(r)
      THEN [pc |-> IF r.val.ops = <<>> THEN "done" ELSE "run",
            ops_str |-> ops_str,
            skipped_ops_str |-> r.val.skipped_ops_str,
            ops |-> r.val.ops, i |-> 0,
            xexpr |-> r.val.xexpr, yexpr |-> r.val.yexpr,
            ds_path |-> ds_path, ds_in_format |-> ifmt,
            ds_out_format |-> ofmt, splnk |-> FALSE,
            load_info |-> r.val.load_info, error |-> "",
            ds |-> r.val.ds]
    ELSE [IdlePlotter EXCEPT !.pc = Outcome(r), !.ops_str = ops_str,
                             !.xexpr = xexpr, !.yexpr = yexpr,
                             !.ds_path = ds_path, !.ds_in_format = ifmt,
                             !.error = r.val]

\* main: the command line is parsed and Plotter::new builds the Plotter.
NewPlotter ==
    /\ plotter.pc = "idle"
    /\ nruns < MaxRuns
    /\ \E ops_str \in Requests, fmt \in {"csv", "lnk"}, ihdr \in InputHasHeader,
          overflow_checks \in BOOLEAN :
        \E xy \in CommandLineExprs(fmt) :
          LET ds_path == IF fmt = "lnk" THEN SplnkPath ELSE SourcePath
              ifmt == DataSheetFormat_new(fmt, ihdr, ops_str).val
              ofmt == DataSheetFormat_new("csv", TRUE, ops_str).val
              started == Started(Plotter_new(ds_path, ops_str, xy[1], xy[2], ifmt,
                                             ofmt, cache, overflow_checks),
                                 ops_str, xy[1], xy[2], ds_path, ifmt, ofmt)
          IN /\ plotter' = Without(started, "ds")
             /\ sheet' = started.ds
             /\ state_cache' = IF fmt = "lnk"
                                 THEN Seen(StateCacheReader_read(cache.splnk),
                                           ops_str)
                               ELSE NotRead
    /\ hist' = <<>>
    /\ stdout' = <<>>
    /\ nruns' = nruns + 1
    /\ UNCHANGED cache

Running(kind) ==
    /\ plotter.pc = "run"
    /\ plotter.ops[plotter.i + 1].kind = kind

Stepped(res) ==
    IF IsOk(res) THEN [plotter EXCEPT !.i = @ + 1, !.pc = After(plotter.i)]
    ELSE [plotter EXCEPT !.pc = Outcome(res), !.error = res.val]

Transformed(transform, res) ==
    /\ hist' = Append(hist, [t |-> transform, in |-> sheet, res |-> res])
    /\ sheet' = IF IsOk(res) THEN res.val ELSE sheet
    /\ plotter' = Stepped(res)

\* Plotter::apply, a Transform operator: it replaces the live Datasheet.
ApplyTransform ==
    /\ Running("Transform")
    /\ Transformed(plotter.ops[plotter.i + 1],
                   Transform_apply(plotter.ops[plotter.i + 1], sheet, XCol, YCol))
    /\ UNCHANGED <<cache, state_cache, stdout, nruns>>

\* DataSheetDumper::apply: only a CSV output format can be written.
DataSheetDumper_apply(ds, format) ==
    IF format.fmt = "csv" THEN Datasheet_to_csv(ds, format.has_header)
    ELSE Err("Illegal datasheet format")

\* Plotter::apply, the dump "C": the payload file is created and written,
\* then the index file is created if this run has not yet done so, and the
\* line of this checkpoint is appended.  `i - 1` underflows when C is the
\* first operator: a panic where overflow checks are compiled in; where they
\* are not, until_index wraps and until_index + 1 wraps back to 0.
ApplyDumpC ==
    /\ Running("Dump")
    /\ plotter.ops[plotter.i + 1].op = "C"
    /\ \E overflow_checks \in BOOLEAN :
          IF plotter.i = 0 /\ overflow_checks
            THEN /\ plotter' = [plotter EXCEPT
                                  !.pc = "panicked",
                                  !.error = "attempt to subtract with overflow"]
                 /\ UNCHANGED cache
          ELSE LET metadata == RenderOps(plotter.ops, plotter.i, TRUE)
                   filename == state_cache_filename(
                                   plotter.skipped_ops_str \o metadata)
                   created == CreateFile(cache.files, filename)
                   dumped == DataSheetDumper_apply(sheet, plotter.ds_out_format)
                   header == StateCacheHeader_new(
                                 plotter.ds_path, plotter.xexpr, plotter.yexpr,
                                 DataSheetFormat_get_fmt_str(plotter.ds_in_format),
                                 DataSheetFormat_has_header(plotter.ds_in_format),
                                 DataSheetFormat_get_fmt_str(plotter.ds_out_format),
                                 <<>>)
                   opened == IF plotter.splnk THEN cache.splnk
                             ELSE [exists |-> TRUE,
                                   header |-> StateCacheHeader_to_string(header.val),
                                   lines |-> <<>>]
               IN IF ~IsOk(dumped)
                    THEN /\ cache' = [cache EXCEPT !.files = created]
                         /\ plotter' = [plotter EXCEPT !.pc = Outcome(dumped),
                                                       !.error = dumped.val]
                  ELSE /\ cache' = [cache EXCEPT
                                      !.files = WriteFile(created, filename, dumped.val),
                                      !.splnk = [opened EXCEPT
                                                   !.lines = Append(@, metadata)]]
                       /\ plotter' = [plotter EXCEPT !.i = @ + 1,
                                                     !.pc = After(plotter.i),
                                                     !.splnk = TRUE]
    /\ UNCHANGED <<sheet, hist, state_cache, stdout, nruns>>

\* Plotter::apply, the dump "O": the datasheet goes to standard output, and
\* the loop goes on.
ApplyDumpO ==
    /\ Running("Dump")
    /\ plotter.ops[plotter.i + 1].op = "O"
    /\ LET dumped == DataSheetDumper_apply(sheet, plotter.ds_out_format)
       IN IF ~IsOk(dumped)
            THEN /\ plotter' = [plotter EXCEPT !.pc = Outcome(dumped),
                                               !.error = dumped.val]
                 /\ UNCHANGED stdout
          ELSE /\ stdout' = Append(stdout, [op |-> "O", i |-> plotter.i,
                                            data |-> dumped.val])
               /\ plotter' = [plotter EXCEPT !.i = @ + 1, !.pc = After(plotter.i)]
    /\ UNCHANGED <<sheet, hist, cache, state_cache, nruns>>

\* Plotter::apply, the dump "P" (PlotDumper::apply): the datasheet is written
\* to a temporary CSV file and gnuplot, which may fail, draws it; the loop
\* goes on.
ApplyDumpP ==
    /\ Running("Dump")
    /\ plotter.ops[plotter.i + 1].op = "P"
    /\ \E gnuplot_ok \in BOOLEAN :
          LET dumped == Datasheet_to_csv(sheet, TRUE)
          IN IF ~IsOk(dumped)
               THEN /\ plotter' = [plotter EXCEPT !.pc = Outcome(dumped),
                                                  !.error = dumped.val]
                    /\ UNCHANGED stdout
             ELSE IF ~gnuplot_ok
               THEN /\ plotter' = [plotter EXCEPT !.pc = "failed",
                                                  !.error = "gnuplot failed"]
                    /\ UNCHANGED stdout
             ELSE /\ stdout' = Append(stdout, [op |-> "P", i |-> plotter.i,
                                               data |-> dumped.val])
                  /\ plotter' = [plotter EXCEPT !.i = @ + 1, !.pc = After(plotter.i)]
    /\ UNCHANGED <<sheet, hist, cache, state_cache, nruns>>

\* The process ends: its memory is gone, the files stay.
Exit ==
    /\ plotter.pc \in {"done", "failed", "panicked"}
    /\ plotter' = Without(IdlePlotter, "ds")
    /\ sheet' = NoSheet
    /\ hist' = <<>>
    /\ state_cache' = NotRead
    /\ stdout' = <<>>
    /\ UNCHANGED <<cache, nruns>>

Next ==
    \/ NewPlotter
    \/ ApplyTransform
    \/ ApplyDumpC
    \/ ApplyDumpO
    \/ ApplyDumpP
    \/ Exit

Spec == Init /\ [][Next]_vars

(***************************************************************************)
(* SpecOps: the operator library on its own.  Init draws a source file;    *)
(* the first action constructs the initial Datasheet from it, either by    *)
(* evaluating the column expressions over it or by loading it as the       *)
(* payload of a checkpoint; each later action applies one transform to the *)
(* live Datasheet, as Plotter::apply does with x = 0 and y = 1, and an Err *)
(* or a panic ends the run.                                                *)
(***************************************************************************)
SheetValues == {F(1), F(2), NaN}
Windows == {F(1), F(2)}

FSeq(ints) == [k \in 1..Len(ints) |-> F(ints[k])]
Rows(xs, ys) == [k \in 1..Len(xs) |-> <<xs[k], ys[k]>>]

\* The sheets of the specification's examples, longer than MaxRows, and a
\* sheet whose y column repeats a value in rows that are not adjacent.
ExampleFiles ==
    { [headers |-> <<"x", "y">>,
       rows |-> Rows(FSeq(<<1, 1, 2, 2, 2, 3>>), FSeq(<<1, 2, 3, 4, 5, 6>>))],
      [headers |-> <<"x", "y">>,
       rows |-> Rows(FSeq(<<1, 1, 2>>), FSeq(<<1, 2, 3>>))],
      [headers |-> <<"x", "y">>,
       rows |-> Rows(FSeq(<<1, 2, 3>>), FSeq(<<1, 2, 1>>))],
      [headers |-> <<"x", "y">>,
       rows |-> Rows(FSeq(<<1, 2, 1>>), FSeq(<<10, 12, 15>>))] }

InitFiles ==
    { [headers |-> <<"x", "y">>, rows |-> rows] :
        rows \in SeqsUpTo(SheetValues \X SheetValues, MaxRows) }

OpsExprPairs ==
    { <<<<"#", "1">>, <<"#", "2">>>>, <<<<"1">>, <<"#", "1">>>>,
      <<<<"#", "1">>, <<"1", "/", "0">>>>, <<<<"#", "1", "/", "0">>, <<"#", "2">>>>,
      <<<<"#", "0">>, <<"#", "2">>>>, <<<<"#", "1">>, <<"#", "3">>>> }

OpsInit ==
    /\ cache \in {[source |-> f, splnk |-> NoSplnk, files |-> <<>>] :
                    f \in InitFiles \cup ExampleFiles}
    /\ sheet = NoSheet
    /\ hist = <<>>
    /\ plotter = Without(IdlePlotter, "ds")
    /\ state_cache = NotRead
    /\ stdout = <<>>
    /\ nruns = 0

Live == IF hist = <<>> THEN FALSE ELSE IsOk(hist[Len(hist)].res)

OpsBuilt(xexpr, yexpr, res) ==
    /\ hist' = <<[t |-> [op |-> "new", xexpr |-> xexpr, yexpr |-> yexpr],
                  in |-> NoSheet, res |-> res]>>
    /\ sheet' = IF IsOk(res) THEN res.val ELSE sheet
    /\ UNCHANGED <<cache, plotter, state_cache, stdout, nruns>>

\* The None arm of Plotter::new: the source is read and the column
\* expressions are evaluated over it.
OpsConstruct ==
    /\ hist = <<>>
    /\ \E xy \in OpsExprPairs, overflow_checks \in BOOLEAN :
          LET ds == Datasheet_from_csv(cache.source, TRUE)
          IN OpsBuilt(xy[1], xy[2],
                      IF ~IsOk(ds) THEN ds
                      ELSE process_column_expressions_on_datasheet(
                               ds.val, xy[1], xy[2], overflow_checks))

\* The Some arm of Datasheet::read: the file is the payload of a
\* checkpoint, read in the output format and given its column names.
OpsLoadCheckpoint ==
    /\ hist = <<>>
    /\ LET ds == Datasheet_from_csv(cache.source, TRUE)
           ds1 == Datasheet_set_column_name(ds.val, 0, "#1")
           ds2 == Datasheet_set_column_name(ds1.val, 1, "#2")
       IN OpsBuilt(<<>>, <<>>,
                   IF ~IsOk(ds) THEN ds ELSE IF ~IsOk(ds1) THEN ds1 ELSE ds2)

OpsApplied(t, res) ==
    /\ hist' = Append(hist, [t |-> t, in |-> sheet, res |-> res])
    /\ sheet' = IF IsOk(res) THEN res.val ELSE sheet

OpsApply(t) ==
    /\ OpsApplied(t, Transform_apply(t, sheet, XCol, YCol))
    /\ UNCHANGED <<cache, plotter, state_cache, stdout, nruns>>

CanApply == Len(hist) <= MaxApplied /\ Live

OpsCDF == CanApply /\ OpsApply([op |-> "c"])
OpsDerivation ==
    CanApply /\ \E w \in Windows : OpsApply([op |-> "d", window |-> w])
OpsIntegral == CanApply /\ OpsApply([op |-> "i"])
OpsMerge == CanApply /\ OpsApply([op |-> "m"])
OpsRotate == CanApply /\ OpsApply([op |-> "r"])
OpsStep == CanApply /\ OpsApply([op |-> "s"])
OpsSort == CanApply /\ OpsApply([op |-> "o"])

OpsNext ==
    \/ OpsConstruct
    \/ OpsLoadCheckpoint
    \/ OpsCDF
    \/ OpsDerivation
    \/ OpsIntegral
    \/ OpsMerge
    \/ OpsRotate
    \/ OpsStep
    \/ OpsSort

SpecOps == OpsInit /\ [][OpsNext]_vars


(***************************************************************************)
(* Claims about the operator library, checked under SpecOps.               *)
(***************************************************************************)
Range(q) == {q[k] : k \in 1..Len(q)}
Count(q, v) == Cardinality({k \in 1..Len(q) : q[k] = v})
SameElements(a, b) ==
    /\ Len(a) = Len(b)
    /\ \A v \in Range(a) \cup Range(b) : Count(a, v) = Count(b, v)
\* No value is followed by a smaller one.
NonDecreasing(col) == \A k \in 1..(Len(col) - 1) : ~FLt(col[k + 1], col[k])
Applications(op) == {k \in 1..Len(hist) : hist[k].t.op = op}

(***************************************************************************)
(* SpecCache: the index reader on its own.  Init draws an index file with  *)
(* any lines, or none; the one action is the lnk arm of Datasheet::read up *)
(* to the lookup: StateCacheReader::read, then the find_map over the lines *)
(* it returned.                                                            *)
(***************************************************************************)
LineChars == {"c", "5", "C"}
IndexLines == SeqsUpTo(LineChars, MaxLineLen)
HeaderFormats == {<<"csv", "true">>, <<"lnk()">>}
LookupRequests == {<<>>, <<"c">>, <<"c", "5">>, <<"c", "c">>, <<"C", "c">>}
IndexFiles ==
    {NoSplnk} \cup
    { [exists |-> TRUE,
       header |-> [ds_path |-> SourcePath, xexpr |-> <<"#", "1">>,
                   yexpr |-> <<"#", "2">>, ds_in_format |-> f,
                   ds_out_format |-> <<"csv", "true">>],
       lines |-> l] : f \in HeaderFormats, l \in SeqsUpTo(IndexLines, MaxLines) }

CacheInit ==
    /\ cache \in {[source |-> EmptyFile, splnk |-> f, files |-> <<>>] :
                     f \in IndexFiles}
    /\ sheet = NoSheet
    /\ hist = <<>>
    /\ plotter = Without(IdlePlotter, "ds")
    /\ state_cache = NotRead
    /\ stdout = <<>>
    /\ nruns = 0

CacheLookup ==
    /\ state_cache.tag = "None"
    /\ \E opseq_str \in LookupRequests :
          /\ state_cache' = Seen(StateCacheReader_read(cache.splnk), opseq_str)
          /\ plotter' = [plotter EXCEPT !.ops_str = opseq_str]
    /\ UNCHANGED <<sheet, hist, cache, stdout, nruns>>

CacheNext == CacheLookup

SpecCache == CacheInit /\ [][CacheNext]_vars

IsExtension(line, previous) ==
    /\ Len(previous) <= Len(line)
    /\ SubSeq(line, 1, Len(previous)) = previous

NonDump(c) == ~is_ascii_uppercase(c)
NonDumpOf(str) == SelectSeq(str, NonDump)
IsTransform(op) == op.kind = "Transform"
TransformsOf(ops) == RenderOps(SelectSeq(ops, IsTransform), Len(ops), FALSE)

\* The number of leading positions at which the non-dump characters of the
\* two strings agree.
MatchLength(a, b) ==
    Cardinality({n \in 1..Min(Len(NonDumpOf(a)), Len(NonDumpOf(b))) :
                    SubSeq(NonDumpOf(a), 1, n) = SubSeq(NonDumpOf(b), 1, n)})

\* The two strings agree at every position that both have.
FullyAgree(a, b) ==
    MatchLength(a, b) = Min(Len(NonDumpOf(a)), Len(NonDumpOf(b)))

\* The position in str right after its n-th non-dump character (0 for n = 0).
SplitAfter(str, n) ==
    IF n = 0 THEN 0
    ELSE CHOOSE p \in 1..Len(str) :
            /\ NonDump(str[p])
            /\ Cardinality({q \in 1..p : NonDump(str[q])}) = n

\* The index was read by the run in progress, and these are its lines.
IndexRead == state_cache.tag = "Ok"
Lines == IF IndexRead THEN state_cache.val.opseq_cache ELSE <<>>
Selected == state_cache.matched

\* stored holds exactly the transforms of str[0..pos], and str splits at pos
\* into two operator sequences that together are the operators of str.
AtBoundary(head, rest, whole, stored) ==
    /\ IsOk(head) /\ IsOk(rest) /\ IsOk(whole) /\ IsOk(stored)
    /\ head.val \o rest.val = whole.val
    /\ TransformsOf(head.val) = TransformsOf(stored.val)
Boundary(str, stored, pos) ==
    AtBoundary(OpSeq_new(Slice(str, 0, pos)), OpSeq_new(Slice(str, pos, Len(str))),
               OpSeq_new(str), OpSeq_new(stored))

\* The transforms of ops from operator k on, applied in order to ds; dumps
\* leave the datasheet alone.
RECURSIVE ApplyFrom(_, _, _)
ApplyFrom(ops, k, ds) ==
    IF ~IsOk(ds) \/ k > Len(ops) THEN ds
    ELSE ApplyFrom(ops, k + 1,
                   IF ops[k].kind = "Dump" THEN ds
                   ELSE Transform_apply(ops[k], ds.val, XCol, YCol))
ApplyAll(ops, ds) == IF ~IsOk(ops) THEN ops ELSE ApplyFrom(ops.val, 1, ds)
Evaluated(ds, xexpr, yexpr) ==
    IF ~IsOk(ds) THEN ds
    ELSE process_column_expressions_on_datasheet(ds.val, xexpr, yexpr, TRUE)

\* The datasheet of a run of all of str on the source, from scratch.
FromScratch(source, header, str) ==
    ApplyAll(OpSeq_new(str),
             Evaluated(Datasheet_from_csv(source,
                                          DataSheetFormat_has_header(
                                              header.ds_in_format)),
                       header.xexpr, header.yexpr))

SameSheet(scratch, ds) ==
    /\ IsOk(scratch)
    /\ scratch.val.columns = ds.columns
    /\ scratch.val.headers = ds.headers

\* The run in progress resumed from a checkpoint stored after an
\* operator-boundary prefix of its operator sequence.
Resumed ==
    /\ IndexRead
    /\ plotter.load_info.some
    /\ Boundary(plotter.ops_str, plotter.load_info.matched,
                plotter.load_info.opseq_skip_len)

\* C1: a run that loads a checkpoint saved after an operator-boundary prefix
\* P of S and applies the rest of S ends with the column data and column
\* names of a from-scratch run of S on the same source; a transform of the
\* resumed run fails only if the from-scratch run fails too.
C1_ResumeEquivalence ==
    Resumed =>
       /\ plotter.pc = "done" =>
             SameSheet(FromScratch(cache.source, state_cache.val.header,
                                   plotter.ops_str), sheet)
       /\ (plotter.pc \in {"failed", "panicked"} /\ hist # <<>>
              /\ ~IsOk(hist[Len(hist)].res)) =>
             ~IsOk(FromScratch(cache.source, state_cache.val.header,
                               plotter.ops_str))

\* C2: whenever the lookup selects a stored line for a request S that
\* parses, split position L, the stored transforms are exactly the
\* transforms of S[0..L], and S[0..L] and S[L..] parse to the operators of S.
C2_ExactBoundary ==
    (IndexRead /\ Selected # <<>> /\ IsOk(OpSeq_new(plotter.ops_str))) =>
        Boundary(plotter.ops_str, Selected[1], Selected[2])

\* C3: when no stored line agrees with S on at least one non-dump character,
\* nothing is selected and no payload is loaded.
C3_ZeroMatchUnused ==
    (IndexRead /\ \A k \in 1..Len(Lines) :
                     MatchLength(plotter.ops_str, Lines[k]) = 0) =>
        /\ Selected = <<>>
        /\ ~plotter.load_info.some

\* The greatest match length over the stored lines.
BestLength ==
    CHOOSE n \in 0..MaxSeqLen + 2 :
       /\ \A k \in 1..Len(Lines) : MatchLength(plotter.ops_str, Lines[k]) <= n
       /\ \E k \in 1..Len(Lines) : MatchLength(plotter.ops_str, Lines[k]) = n
Last(S) == CHOOSE k \in S : \A j \in S : j <= k

\* C4 as stated: when some stored line agrees with S on at least one leading
\* non-dump character, the line selected is the most recently stored one
\* among those of the greatest match length.
C4_LongestMatchSelected ==
    (IndexRead /\ Lines # <<>> /\ BestLength >= 1) =>
        /\ Selected # <<>>
        /\ Selected[1] =
              Lines[Last({k \in 1..Len(Lines) :
                            MatchLength(plotter.ops_str, Lines[k]) = BestLength})]

\* C4, amended: the line selected is the most recently stored one whose
\* non-dump characters agree with those of S at every position both have,
\* its split position is right after the last compared character of S, and
\* nothing is selected when no line agrees that way.
C4_LastFullAgreementSelected ==
    IndexRead =>
        LET agreeing == {k \in 1..Len(Lines) : FullyAgree(plotter.ops_str, Lines[k])}
        IN IF agreeing = {} THEN Selected = <<>>
           ELSE Selected =
                  <<Lines[Last(agreeing)],
                    SplitAfter(plotter.ops_str,
                               MatchLength(plotter.ops_str, Lines[Last(agreeing)]))>>

\* Two stored lines agree with the request, and the later one is selected.
C4_Witness ==
    /\ IndexRead
    /\ Len(Lines) = 2
    /\ Lines[1] # Lines[2]
    /\ FullyAgree(plotter.ops_str, Lines[1])
    /\ FullyAgree(plotter.ops_str, Lines[2])
    /\ Selected # <<>>
    /\ Selected[1] = Lines[2]
    /\ Selected[2] >= 1

\* C6: whenever the datasheet is flagged as sorted by a column (sorted_by =
\* Some(col)), that column's data is non-decreasing.
C6_SortedFlagImpliesSorted ==
    (sheet.sorted_by # None /\ HasCol(sheet, sheet.sorted_by))
        => NonDecreasing(Col(sheet, sheet.sorted_by))

\* C7: after the initial construction (expression evaluation or checkpoint
\* load) and after every successfully applied transform, the live datasheet
\* has an x and a y column, and they have the same length.
C7_RowCount ==
    (hist # <<>> /\ IsOk(hist[Len(hist)].res)) =>
        /\ HasCol(sheet, XCol)
        /\ HasCol(sheet, YCol)
        /\ Len(Col(sheet, XCol)) = Len(Col(sheet, YCol))

\* C8: for every datasheet whose x column is finite, Sort succeeds, and Sort
\* applied to its result returns that same datasheet (data, names and flag).
C8_SortIdempotent ==
    /\ (HasCol(sheet, XCol) /\ is_sortable(Col(sheet, XCol)))
          => LET once == SortOperator_apply(sheet, XCol, YCol)
             IN /\ IsOk(once)
                /\ SortOperator_apply(once.val, XCol, YCol) = once
    /\ \A k \in Applications("o") :
          (k > 1 /\ hist[k - 1].t.op = "o") => hist[k].res = hist[k - 1].res

C8_Witness ==
    /\ Len(hist) = 3
    /\ hist[2].t.op = "o" /\ hist[3].t.op = "o"
    /\ hist[2].in.columns = <<FSeq(<<2, 1>>), FSeq(<<1, 2>>)>>
    /\ IsOk(hist[3].res)
    /\ hist[3].res.val.columns = <<FSeq(<<1, 2>>), FSeq(<<2, 1>>)>>

\* C9: on a datasheet whose y column is finite with N >= 1 rows, CDF returns
\* x' = the old y values in ascending order, y'[i] = i/N for i = 1..N, named
\* by the old y name and "CDF".
C9_CDF ==
    \A k \in Applications("c") :
        LET ds == hist[k].in
            n == IF HasCol(ds, YCol) THEN Len(Col(ds, YCol)) ELSE 0
            out == hist[k].res
        IN (HasCol(ds, YCol) /\ is_sortable(Col(ds, YCol)) /\ n >= 1) =>
              /\ IsOk(out)
              /\ SameElements(Col(out.val, XCol), Col(ds, YCol))
              /\ NonDecreasing(Col(out.val, XCol))
              /\ Len(Col(out.val, YCol)) = n
              /\ \A i \in 1..n :
                    /\ Col(out.val, YCol)[i][2] > 0
                    /\ Col(out.val, YCol)[i][1] * n = i * Col(out.val, YCol)[i][2]
              /\ out.val.headers = <<Hdr(ds, YCol), "CDF">>

C9_Witness ==
    /\ Len(hist) >= 2
    /\ hist[2].t.op = "c"
    /\ HasCol(hist[2].in, YCol)
    /\ Col(hist[2].in, YCol) = FSeq(<<2, 1>>)
    /\ IsOk(hist[2].res)
    /\ hist[2].res.val.columns = <<FSeq(<<1, 2>>), <<Norm(1, 2), F(1)>>>>

\* The maximal runs of adjacent equal x: a run starts at row 1 and at every
\* row whose x differs from the row before.
RunStarts(xs) == {k \in 1..Len(xs) : k = 1 \/ ~FEq(xs[k - 1], xs[k])}
RunEnd(xs, a) ==
    CHOOSE b \in a..Len(xs) :
        /\ \A k \in (a + 1)..b : k \notin RunStarts(xs)
        /\ (b = Len(xs) \/ (b + 1) \in RunStarts(xs))
RECURSIVE SumRows(_, _, _)
SumRows(ys, a, b) == IF a = b THEN ys[a] ELSE FAdd(SumRows(ys, a, b - 1), ys[b])
\* The k-th smallest element of a set of row numbers.
Nth(S, k) == CHOOSE a \in S : Cardinality({b \in S : b < a}) = k - 1

\* C10: on a datasheet with an x and a y column, Merge returns one row per
\* maximal run of adjacent equal x values, in input order, with that x and
\* the sum of the run's y values; it does not sort, and equal x values that
\* are not adjacent stay separate rows.
C10_Merge ==
    \A k \in {a \in Applications("m") :
                 HasCol(hist[a].in, XCol) /\ HasCol(hist[a].in, YCol)} :
        LET ds == hist[k].in
            xs == Col(ds, XCol)
            ys == Col(ds, YCol)
            out == hist[k].res
            starts == RunStarts(xs)
        IN /\ IsOk(out)
           /\ Len(Col(out.val, XCol)) = Cardinality(starts)
           /\ Len(Col(out.val, YCol)) = Cardinality(starts)
           /\ \A r \in 1..Cardinality(starts) :
                 LET a == Nth(starts, r)
                 IN /\ Col(out.val, XCol)[r] = xs[a]
                    /\ Col(out.val, YCol)[r] = SumRows(ys, a, RunEnd(xs, a))
           /\ (xs = FSeq(<<1, 1, 2, 2, 2, 3>>) /\ ys = FSeq(<<1, 2, 3, 4, 5, 6>>))
                 => out.val.columns = <<FSeq(<<1, 2, 3>>), FSeq(<<3, 12, 6>>)>>
           /\ (xs = FSeq(<<1, 2, 1>>))
                 => Col(out.val, XCol) = FSeq(<<1, 2, 1>>)

C10_Witness ==
    /\ Len(hist) >= 2
    /\ hist[2].t.op = "m"
    /\ hist[2].in.columns = <<FSeq(<<1, 1, 2, 2, 2, 3>>), FSeq(<<1, 2, 3, 4, 5, 6>>)>>
    /\ IsOk(hist[2].res)
    /\ hist[2].res.val.columns = <<FSeq(<<1, 2, 3>>), FSeq(<<3, 12, 6>>)>>

(***************************************************************************)
(* The operator-sequence strings on their own: a string is parsed by       *)
(* OpSeq::new, a prefix of the parsed operators is rendered by             *)
(* OpSeq::to_string, and the rendered string is parsed again, or is a      *)
(* stored index line that the string is matched against as a request.      *)
(***************************************************************************)
OpseqChars == {"c", "d", "x", "C", "0", "1", ".", ","}
OpseqStrings == SeqsUpTo(OpseqChars, MaxStrLen)

\* usize::MAX, which `0 - 1` wraps to where overflow checks are compiled
\* out; the largest integer TLC represents stands for 2^64 - 1.
UsizeMax == 2147483647

\* OpSeq::to_string(until_index, include_dump): `until_index + 1` overflows
\* for usize::MAX, a panic with overflow checks and a wrap to 0 without.
OpSeq_to_string(ops, until_index, include_dump, overflow_checks) ==
    IF until_index = UsizeMax
      THEN IF overflow_checks THEN Panic("attempt to add with overflow")
           ELSE Ok(RenderOps(ops, 0, include_dump))
    ELSE Ok(RenderOps(ops, until_index + 1, include_dump))

\* The string of the first n operators as Plotter::apply asks for it,
\* to_string(n - 1, include_dump): `n - 1` underflows for n = 0.
Prefix(ops, n, include_dump, overflow_checks) ==
    IF n = 0
      THEN IF overflow_checks THEN Panic("attempt to subtract with overflow")
           ELSE OpSeq_to_string(ops, UsizeMax, include_dump, overflow_checks)
    ELSE OpSeq_to_string(ops, n - 1, include_dump, overflow_checks)

\* Plotter::new on a matched index line: the operators of the request after
\* the split position.
Resume(opseq_str, matched) ==
    [matched |-> matched,
     ops |-> IF matched = <<>> THEN Err("no match")
             ELSE OpSeq_new(Slice(opseq_str, matched[2], Len(opseq_str)))]

ParseInit ==
    /\ plotter \in {[Without(IdlePlotter, "ds") EXCEPT !.ops_str = str] :
                       str \in OpseqStrings}
    /\ cache = [source |-> EmptyFile, splnk |-> NoSplnk, files |-> <<>>]
    /\ sheet = NoSheet
    /\ hist = <<>>
    /\ state_cache = NotRead
    /\ stdout = <<>>
    /\ nruns = 0

OpSeqBuilt(res) ==
    /\ hist' = <<[t |-> [op |-> "parse"], in |-> plotter.ops_str, res |-> res]>>
    /\ plotter' = IF IsOk(res) THEN [plotter EXCEPT !.ops = res.val] ELSE plotter

\* OpSeq::new on the string of the command line.
ParseNew ==
    /\ hist = <<>>
    /\ OpSeqBuilt(OpSeq_new(plotter.ops_str))
    /\ UNCHANGED <<sheet, cache, state_cache, stdout, nruns>>

\* The string of the first n operators is rendered.
ParseToString ==
    /\ Len(hist) = 1
    /\ IsOk(hist[1].res)
    /\ \E n \in 0..Len(plotter.ops), include_dump, overflow_checks \in BOOLEAN :
          hist' = Append(hist,
                         [t |-> [op |-> "to_string", n |-> n,
                                 include_dump |-> include_dump],
                          in |-> plotter.ops,
                          res |-> Prefix(plotter.ops, n, include_dump,
                                         overflow_checks)])
    /\ UNCHANGED <<sheet, cache, plotter, state_cache, stdout, nruns>>

Rendered ==
    /\ Len(hist) = 2
    /\ hist[2].t.op = "to_string"
    /\ IsOk(hist[2].res)

\* OpSeq::new on the rendered string.
ParseReparse ==
    /\ Rendered
    /\ hist' = Append(hist, [t |-> [hist[2].t EXCEPT !.op = "reparse"],
                             in |-> hist[2].res.val,
                             res |-> OpSeq_new(hist[2].res.val)])
    /\ UNCHANGED <<sheet, cache, plotter, state_cache, stdout, nruns>>

\* Datasheet::read and Plotter::new with the rendered string as the one
\* line of the index and the string of the command line as the request.
ParseMatchSplit ==
    /\ Rendered
    /\ hist[2].t.include_dump
    /\ hist' = Append(hist, [t |-> [hist[2].t EXCEPT !.op = "match_split"],
                             in |-> hist[2].res.val,
                             res |-> Resume(plotter.ops_str,
                                            OpSeq_match_split(plotter.ops_str,
                                                              hist[2].res.val))])
    /\ UNCHANGED <<sheet, cache, plotter, state_cache, stdout, nruns>>

ParseNext ==
    \/ ParseNew
    \/ ParseToString
    \/ ParseReparse
    \/ ParseMatchSplit

SpecParse == ParseInit /\ [][ParseNext]_vars

\* The applications of op to a datasheet that holds its x and y columns.
OnColumns(op) ==
    {k \in Applications(op) : HasCol(hist[k].in, XCol) /\ HasCol(hist[k].in, YCol)}

\* C11: on every datasheet with N rows Step returns N-1 rows with
\* y'[i] = y[i+1] - y[i] and x'[i] = x[i+1], the x name kept and the y name
\* suffixed with ":Step".
C11_Step ==
    \A k \in OnColumns("s") :
        LET xs == Col(hist[k].in, XCol)
            ys == Col(hist[k].in, YCol)
            out == hist[k].res
        IN /\ IsOk(out)
           /\ Len(Col(out.val, XCol)) = Len(xs) - 1
           /\ Len(Col(out.val, YCol)) = Len(ys) - 1
           /\ \A i \in 1..(Len(ys) - 1) :
                 /\ Col(out.val, YCol)[i] = FSub(ys[i + 1], ys[i])
                 /\ Col(out.val, XCol)[i] = xs[i + 1]
           /\ out.val.headers =
                 <<Hdr(hist[k].in, XCol), Hdr(hist[k].in, YCol) \o ":Step">>
           /\ ys = FSeq(<<10, 12, 15>>) => Col(out.val, YCol) = FSeq(<<2, 3>>)

\* Two rows of the column hold equal values.
HasDuplicates(col) ==
    \E a, b \in 1..Len(col) : a # b /\ FEq(col[a], col[b])

\* C12: Derivative and Integral fail whenever the x column holds two equal
\* values in any positions, with the duplicate-value error when the column
\* is finite; and a Derivative of finite columns holds no quotient by zero.
C12_DuplicatesRejected ==
    /\ \A k \in OnColumns("d") \cup OnColumns("i") :
          HasDuplicates(Col(hist[k].in, XCol)) =>
             /\ hist[k].res.tag = "Err"
             /\ is_sortable(Col(hist[k].in, XCol)) =>
                   hist[k].res.val = "contains duplicated values."
    /\ \A k \in OnColumns("d") :
          (IsOk(hist[k].res) /\ is_sortable(Col(hist[k].in, XCol))
              /\ is_sortable(Col(hist[k].in, YCol))) =>
             is_sortable(Col(hist[k].res.val, YCol))

\* The operator the loop of Plotter::apply is about to apply is a dump.
AtDump == plotter.pc = "run" /\ plotter.ops[plotter.i + 1].kind = "Dump"

C14_PrintEndsRun ==
    \A k \in 1..Len(stdout) :
        /\ plotter.i = stdout[k].i + 1
        /\ plotter.pc # "run"

\* The number of arguments an opcode takes, and the opcodes there are.
RequiredArgs(op) == IF op = "d" THEN 1 ELSE 0
KnownOpcodes == {"c", "d", "i", "m", "o", "r", "s", "C", "O", "P"}

\* An operator token that must not validate: an unknown opcode, a number of
\* arguments other than the required one, or a window that is not positive
\* and finite.
Invalid(op) ==
    \/ op.op \notin KnownOpcodes
    \/ Len(op.arg) # RequiredArgs(op.op)
    \/ op.op = "d" /\ \E k \in 1..Len(op.arg) :
          ~is_finite(op.arg[k]) \/ ~FGt(op.arg[k], F(0))

\* C15: OpSeq::new fails for every string that holds an unknown opcode, an
\* operator with a wrong number of arguments or a window that is not
\* positive and finite; when it succeeds every operator was written with
\* exactly its required arguments.
C15_EagerValidation ==
    \A k \in Applications("parse") :
        LET tokens == str_to_ops(hist[k].in)
        IN /\ ~IsOk(tokens) => ~IsOk(hist[k].res)
           /\ IsOk(tokens) =>
                 /\ (\E j \in 1..Len(tokens.val) : Invalid(tokens.val[j]))
                       => ~IsOk(hist[k].res)
                 /\ IsOk(hist[k].res) =>
                       \A j \in 1..Len(tokens.val) :
                          Len(tokens.val[j].arg) = RequiredArgs(tokens.val[j].op)

\* The strings of the operators ops[a..b], dumps left out on request.
RECURSIVE Concat(_, _, _, _)
Concat(ops, a, b, include_dump) ==
    IF a > b THEN <<>>
    ELSE (IF ops[a].kind = "Dump" /\ ~include_dump THEN <<>>
          ELSE IF ops[a].op = "d" THEN <<"d">> \o F64_to_string(ops[a].window)
          ELSE <<ops[a].op>>)
         \o Concat(ops, a + 1, b, include_dump)

\* C16: for every n from 0 to the number of operators, the string of the
\* first n operators is rendered, and it is the strings of exactly those n
\* operators in order, without the dump operators when they are not asked
\* for.
C16_PrefixRendersFirstN ==
    \A k \in Applications("to_string") :
        /\ IsOk(hist[k].res)
        /\ hist[k].res.val =
              Concat(hist[k].in, 1, hist[k].t.n, hist[k].t.include_dump)

\* The sequence without its dump operators.
Transforms(ops) == SelectSeq(ops, IsTransform)

\* C17: a request finds the checkpoint stored under the canonical string of
\* any prefix of its operators, however the request spells its arguments,
\* and resumes with exactly the transforms that follow that prefix.
C17_SpellingIndependentResume ==
    \A k \in Applications("match_split") :
        /\ hist[k].res.matched # <<>>
        /\ IsOk(hist[k].res.ops)
        /\ Transforms(hist[k].res.ops.val) =
              Transforms(SubSeq(plotter.ops, hist[k].t.n + 1, Len(plotter.ops)))

CompletedC ==
    {j \in 0..(plotter.i - 1) : j < Len(plotter.ops) /\ plotter.ops[j + 1].op = "C"}

\* Every completed C of the run has its payload file and its index line.
Durable ==
    \A j \in CompletedC :
        /\ state_cache_filename(plotter.skipped_ops_str
                                  \o RenderOps(plotter.ops, j, TRUE))
              \in DOMAIN cache.files
        /\ cache.splnk.exists
        /\ \E k \in 1..Len(cache.splnk.lines) :
              cache.splnk.lines[k] = RenderOps(plotter.ops, j, TRUE)

\* The stored lines that the request of the run extends, dump operators
\* apart, and whose payload file is on disk.
Extended ==
    {k \in 1..Len(Lines) :
        /\ IsExtension(NonDumpOf(plotter.ops_str), NonDumpOf(Lines[k]))
        /\ state_cache_filename(Lines[k]) \in DOMAIN cache.files}

\* A run on a readable index whose request extends a stored line selected
\* such a line and loaded its payload.
Found ==
    (IndexRead /\ Extended # {}) =>
        /\ Selected # <<>>
        /\ \E k \in Extended : Selected[1] = Lines[k]
        /\ plotter.pc \notin {"failed", "panicked"} \/ plotter.i > 0
              \/ hist # <<>> => plotter.load_info.some

\* C19: after the first error no further operator is applied and the files
\* are left as they are; every C that completed in the run has left its
\* payload file and its index line; and a later run whose request extends a
\* stored prefix finds that checkpoint and loads it.
C19_AbortAndDurability ==
    [][/\ plotter.pc \in {"failed", "panicked"} =>
            /\ cache' = cache
            /\ plotter'.pc = "idle"
       /\ Durable'
       /\ Found']_vars

\* The canonical string of a request prefix that parses.
Canonical(str) ==
    IF IsOk(OpSeq_new(str))
      THEN RenderOps(OpSeq_new(str).val, Len(str), TRUE)
    ELSE str

\* C20: every C that completes appends to the index the canonical string of
\* all operators applied to the saved datasheet since the source, those
\* skipped by the resume included, and the payload file of that name holds
\* the datasheet just saved.
C20_IndexLineNamesCheckpoint ==
    [][(AtDump /\ plotter.ops[plotter.i + 1].op = "C"
              /\ plotter'.i = plotter.i + 1) =>
          /\ cache'.splnk.exists
          /\ Len(cache'.splnk.lines) >= 1
          /\ LET line == cache'.splnk.lines[Len(cache'.splnk.lines)]
             IN /\ line = Canonical(plotter.skipped_ops_str)
                             \o RenderOps(plotter.ops, plotter.i, TRUE)
                /\ state_cache_filename(line) \in DOMAIN cache'.files
                /\ Ok(cache'.files[state_cache_filename(line)])
                      = DataSheetDumper_apply(sheet, plotter.ds_out_format)]_vars

\* C21: the header that StateCacheWriter::new wrote in this run, for a csv or
\* an lnk input, is read back by StateCacheHeader::from_reader without error
\* as a header with the same source path, x and y expressions and input and
\* output formats.
C21_HeaderRoundTrip ==
    plotter.splnk =>
        LET h == StateCacheHeader_from_reader(cache.splnk.header)
        IN /\ IsOk(h)
           /\ h.val.ds_path = plotter.ds_path
           /\ h.val.xexpr = plotter.xexpr
           /\ h.val.yexpr = plotter.yexpr
           /\ DataSheetFormat_get_fmt_str(h.val.ds_in_format)
                 = DataSheetFormat_get_fmt_str(plotter.ds_in_format)
           /\ DataSheetFormat_has_header(h.val.ds_in_format)
                 = DataSheetFormat_has_header(plotter.ds_in_format)
           /\ h.val.ds_out_format = plotter.ds_out_format

\* C22: a prefix recorded in the index stays in the index: no step of any
\* run removes a line of the index file.
C22_IndexNeverLost ==
    [][\A k \in 1..Len(cache.splnk.lines) :
          /\ cache'.splnk.exists
          /\ \E j \in 1..Len(cache'.splnk.lines) :
                cache'.splnk.lines[j] = cache.splnk.lines[k]]_vars

\* The datasheets built by evaluating the column expressions of a run.
Evaluations == {k \in Applications("new") : hist[k].t.xexpr # <<>>}

\* The source holds rows, and finite values only.
FiniteSource ==
    /\ cache.source.rows # <<>>
    /\ \A r \in 1..Len(cache.source.rows) :
          \A c \in 1..Len(cache.source.rows[r]) :
             is_finite(cache.source.rows[r][c])

\* C23: process_column_expressions_on_datasheet returns columns in which
\* every value is finite, or the NonFiniteNumber error or another error
\* value; it never crashes, whether or not the expressions refer to columns.
C23_EvaluationFiniteOrError ==
    \A k \in Evaluations :
        /\ hist[k].res.tag # "Panic"
        /\ IsOk(hist[k].res) =>
              \A c \in 1..Len(hist[k].res.val.columns) :
                 \A r \in 1..Len(hist[k].res.val.columns[c]) :
                    is_finite(hist[k].res.val.columns[c][r])
        /\ (hist[k].t.yexpr = <<"1", "/", "0">> /\ FiniteSource) =>
              hist[k].res = Err("NonFiniteNumber")

\* The column index an expression of the form #n refers to, or 0.
ReferredIndex(expr) ==
    IF Len(expr) = 2 /\ expr[1] = "#" /\ IsDigit(expr[2]) THEN DigitVal(expr[2])
    ELSE 1

\* C24: over a source of finite values, an expression that refers to column
\* 0, or to a column index greater than the number of columns, evaluates to
\* the ColumnNotFound error; the index arithmetic neither underflows nor
\* wraps.
C24_ColumnIndexChecked ==
    \A k \in Evaluations :
        (FiniteSource
           /\ \/ ReferredIndex(hist[k].t.xexpr) \notin 1..Len(cache.source.headers)
              \/ ReferredIndex(hist[k].t.yexpr) \notin 1..Len(cache.source.headers)) =>
            hist[k].res = Err("ColumnNotFound")

(***************************************************************************)
(* DataPreprocessor::build_datasheet_from_mlr: the caller copies the raw   *)
(* input into the stdin pipe of the row filter while read_thread reads the *)
(* stdout pipe of the filter.  Here cache holds the input and the two      *)
(* pipes, plotter the position of the caller, state_cache the child        *)
(* process, sheet the read thread and hist the steps the caller completed. *)
(***************************************************************************)
MaxInput == 4
MaxPipe == 2

Pipe(cap) == [buf |-> <<>>, cap |-> cap, closed |-> FALSE]
Inputs == {[k \in 1..n |-> k] : n \in 0..MaxInput}

\* The alternative order: the output is read only when the copy has returned.
read_after_copy(pc) == pc # "copy"

\* read_thread is spawned before the copy starts and runs beside the caller.
read_thread(pc) == TRUE

StreamInit ==
    /\ cache \in {[rdr |-> rdr, stdin |-> Pipe(cin), stdout |-> Pipe(cout)] :
                     rdr \in Inputs, cin \in 1..MaxPipe, cout \in 1..MaxPipe}
    /\ plotter = [pc |-> "copy", res |-> Ok(<<>>)]
    /\ state_cache = [exited |-> FALSE, pending |-> <<>>, waited |-> FALSE]
    /\ sheet = [finished |-> FALSE, rows |-> <<>>, joined |-> FALSE]
    /\ hist = <<>>
    /\ stdout = <<>>
    /\ nruns = 0

\* std::io::copy: one more piece of the input enters the stdin pipe; the
\* write blocks while the pipe is full.
CopyWrite ==
    /\ plotter.pc = "copy"
    /\ cache.rdr # <<>>
    /\ Len(cache.stdin.buf) < cache.stdin.cap
    /\ cache' = [cache EXCEPT !.rdr = Tail(@),
                              !.stdin.buf = Append(@, Head(cache.rdr))]
    /\ UNCHANGED <<sheet, hist, plotter, state_cache, stdout, nruns>>

\* std::io::copy returns at the end of the input.
CopyReturn ==
    /\ plotter.pc = "copy"
    /\ cache.rdr = <<>>
    /\ plotter' = [plotter EXCEPT !.pc = "drop"]
    /\ hist' = Append(hist, "copy")
    /\ UNCHANGED <<sheet, cache, state_cache, stdout, nruns>>

\* drop(stdin) closes the write end of the stdin pipe.
DropStdin ==
    /\ plotter.pc = "drop"
    /\ cache' = [cache EXCEPT !.stdin.closed = TRUE]
    /\ plotter' = [plotter EXCEPT !.pc = "join"]
    /\ hist' = Append(hist, "drop")
    /\ UNCHANGED <<sheet, state_cache, stdout, nruns>>

\* The filter takes a record from its stdin; the record is printed or dropped.
FilterConsume ==
    /\ ~state_cache.exited
    /\ state_cache.pending = <<>>
    /\ cache.stdin.buf # <<>>
    /\ \E keep \in BOOLEAN :
          state_cache' = [state_cache EXCEPT
                             !.pending = IF keep THEN <<Head(cache.stdin.buf)>>
                                         ELSE <<>>]
    /\ cache' = [cache EXCEPT !.stdin.buf = Tail(@)]
    /\ UNCHANGED <<sheet, hist, plotter, stdout, nruns>>

\* The filter writes the printed record; the write blocks while the stdout
\* pipe is full.
FilterProduce ==
    /\ ~state_cache.exited
    /\ state_cache.pending # <<>>
    /\ Len(cache.stdout.buf) < cache.stdout.cap
    /\ cache' = [cache EXCEPT !.stdout.buf = Append(@, state_cache.pending[1])]
    /\ state_cache' = [state_cache EXCEPT !.pending = <<>>]
    /\ UNCHANGED <<sheet, hist, plotter, stdout, nruns>>

\* At the end of its input the filter exits, which closes its stdout.
FilterExit ==
    /\ ~state_cache.exited
    /\ state_cache.pending = <<>>
    /\ cache.stdin.buf = <<>>
    /\ cache.stdin.closed
    /\ state_cache' = [state_cache EXCEPT !.exited = TRUE]
    /\ cache' = [cache EXCEPT !.stdout.closed = TRUE]
    /\ UNCHANGED <<sheet, hist, plotter, stdout, nruns>>

\* Datasheet::from_csv on the stdout pipe reads one more record.
ReadRecord ==
    /\ read_thread(plotter.pc)
    /\ ~sheet.finished
    /\ cache.stdout.buf # <<>>
    /\ sheet' = [sheet EXCEPT !.rows = Append(@, Head(cache.stdout.buf))]
    /\ cache' = [cache EXCEPT !.stdout.buf = Tail(@)]
    /\ UNCHANGED <<hist, plotter, state_cache, stdout, nruns>>

\* Datasheet::from_csv reaches the end of the stdout pipe; the thread ends.
ReadEof ==
    /\ read_thread(plotter.pc)
    /\ ~sheet.finished
    /\ cache.stdout.buf = <<>>
    /\ cache.stdout.closed
    /\ sheet' = [sheet EXCEPT !.finished = TRUE]
    /\ UNCHANGED <<hist, cache, plotter, state_cache, stdout, nruns>>

\* read_thread.join() returns when the thread has ended.
Join ==
    /\ plotter.pc = "join"
    /\ sheet.finished
    /\ sheet' = [sheet EXCEPT !.joined = TRUE]
    /\ plotter' = [plotter EXCEPT !.pc = "wait"]
    /\ hist' = Append(hist, "join")
    /\ UNCHANGED <<cache, state_cache, stdout, nruns>>

\* child.wait() returns when the filter has exited; the datasheet is returned.
Wait ==
    /\ plotter.pc = "wait"
    /\ state_cache.exited
    /\ state_cache' = [state_cache EXCEPT !.waited = TRUE]
    /\ plotter' = [pc |-> "returned", res |-> Ok(sheet.rows)]
    /\ hist' = Append(hist, "wait")
    /\ UNCHANGED <<sheet, cache, stdout, nruns>>

StreamNext ==
    \/ CopyWrite
    \/ CopyReturn
    \/ DropStdin
    \/ FilterConsume
    \/ FilterProduce
    \/ FilterExit
    \/ ReadRecord
    \/ ReadEof
    \/ Join
    \/ Wait

\* The tasks and the filter are scheduled: a step that stays possible is taken.
SpecStream == StreamInit /\ [][StreamNext]_vars /\ WF_vars(StreamNext)

StrictlyIncreasing(col) ==
    is_sortable(col) /\ \A k \in 1..(Len(col) - 1) : FLt(col[k], col[k + 1])

\* The anchor of row k when the rows of S are the emitted ones: the last
\* emitted row before k, or the first row.
Anchor(S, k) ==
    LET before == {1} \cup {j \in S : j < k}
    IN CHOOSE m \in before : \A j \in before : j <= m

\* C27: Derivative with window w on a sorted x column without duplicates:
\* the first row is the first anchor and is never emitted; a row is emitted
\* exactly when x >= anchor.x + w, with the value (y - anchor.y) /
\* (x - anchor.x), and is the anchor from then on; the emitted x values are
\* strictly increasing and there are at most N - 1 of them.
C27_DerivativeWindow ==
    \A k \in OnColumns("d") :
        LET xs == Col(hist[k].in, XCol)
            ys == Col(hist[k].in, YCol)
            w == hist[k].t.window
            out == hist[k].res
        IN (StrictlyIncreasing(xs) /\ Len(xs) >= 1) =>
             /\ IsOk(out)
             /\ Len(Col(out.val, XCol)) <= Len(xs) - 1
             /\ StrictlyIncreasing(Col(out.val, XCol))
             /\ \E S \in SUBSET (2..Len(xs)) :
                   /\ \A r \in 2..Len(xs) :
                         r \in S <=> ~FLt(xs[r], FAdd(xs[Anchor(S, r)], w))
                   /\ Len(Col(out.val, XCol)) = Cardinality(S)
                   /\ Len(Col(out.val, YCol)) = Cardinality(S)
                   /\ \A r \in S :
                         LET j == Cardinality({q \in S : q <= r})
                             a == Anchor(S, r)
                         IN /\ Col(out.val, XCol)[j] = xs[r]
                            /\ Col(out.val, YCol)[j] =
                                  FDiv(FSub(ys[r], ys[a]), FSub(xs[r], xs[a]))

\* A Derivative over three rows has passed over the second row and emitted
\* the third against the first.
C27_Witness ==
    \E k \in OnColumns("d") :
        /\ StrictlyIncreasing(Col(hist[k].in, XCol))
        /\ Len(Col(hist[k].in, XCol)) = 3
        /\ IsOk(hist[k].res)
        /\ Col(hist[k].res.val, XCol) = <<Col(hist[k].in, XCol)[3]>>

\* C28: saving a checkpoint never underflows the operator index: when C is
\* the first operator a run executes (the first of the sequence, or the first
\* that remains after resuming), Plotter::apply computes the file name and
\* the index line of the empty prefix without evaluating a negative index.
C28_FirstCheckpoint ==
    [][(AtDump /\ plotter.ops[plotter.i + 1].op = "C" /\ plotter.i = 0) =>
          /\ ~(plotter'.pc = "panicked"
                 /\ plotter'.error = "attempt to subtract with overflow")
          /\ plotter'.i = 1 =>
                /\ state_cache_filename(plotter.skipped_ops_str)
                      \in DOMAIN cache'.files
                /\ cache'.splnk.lines[Len(cache'.splnk.lines)] = <<>>]_vars

\* The applications of a transform, whatever the datasheet holds.
TransformApplications == {k \in 1..Len(hist) : hist[k].t.op # "new"}

\* C29: applying a transform never crashes: on every reachable datasheet,
\* the datasheet with zero rows included, each transform returns a datasheet
\* or a data-precondition error, and indexes no column or row that is absent.
C29_TransformsNeverCrash ==
    \A k \in TransformApplications : hist[k].res.tag \in {"Ok", "Err"}

\* A run on an index has found no stored prefix and has restarted from the
\* source that the header names; no operator has been applied yet.
Fallback ==
    /\ plotter.pc \in {"run", "done"}
    /\ plotter.i = 0
    /\ hist = <<>>
    /\ plotter.ds_in_format.fmt = "lnk"
    /\ state_cache.tag = "Ok"
    /\ state_cache.matched = <<>>

\* The columns of the source of the header under the expressions of the header.
Recomputed(header, source) ==
    IF ~IsOk(source) THEN source
    ELSE process_column_expressions_on_datasheet(source.val.ds, header.xexpr,
                                                 header.yexpr, FALSE)

\* C30: the result of a run on an index does not depend on hit or miss: the
\* fallback recomputes the columns from the source path and the input format
\* of the header with the x and y expressions recorded in the header, data
\* and names, whatever expressions the command line gave.
C30_FallbackUsesHeader ==
    Fallback =>
        LET header == state_cache.val.header
        IN /\ plotter.xexpr = header.xexpr
           /\ plotter.yexpr = header.yexpr
           /\ Ok(sheet) = Recomputed(header, Datasheet_read(header.ds_in_format,
                                                           header.ds_path, cache))

(***************************************************************************)
(* msp, Cli::convert_fields: the series of the command line are converted  *)
(* in order, each against the series converted before it.  All reference   *)
(* fields go through the same convert_field code; the model carries one of *)
(* them, xexpr.  Here cache holds input_data_series, sheet converted_dss,  *)
(* hist one entry per conversion and plotter the outcome of the fold.      *)
(***************************************************************************)
MaxSeries == 3
MaxRef == 3

Instant(v) == [tag |-> "Instant", val |-> v]
Absolute(i) == [tag |-> "Absolute", val |-> i]
NegativeRelative(i) == [tag |-> "NegativeRelative", val |-> i]
PositiveRelative(i) == [tag |-> "PositiveRelative", val |-> i]
Default == [tag |-> "Default", val |-> 0]

\* Field::from_str on the value of rKEY=REF: "-0" is rejected by the parser.
Fields ==
    {Instant(v) : v \in {"a", "b"}} \cup {Default, PositiveRelative(1)}
        \cup {Absolute(i) : i \in 0..MaxRef}
        \cup {NegativeRelative(i) : i \in 1..MaxRef}

\* Cli::fill_defaults: the default of a field is the instant value of the option.
default_series == Instant("d")

\* converted_dss[i] of the code, a panic when i is outside the vector.
Converted(converted_dss, i) ==
    IF i >= 0 /\ i < Len(converted_dss) THEN Ok(converted_dss[i + 1])
    ELSE Panic("index out of bounds")

\* convert_field! on one field of the series at position index (0-based).
convert_field(field, converted_dss, overflow_checks) ==
    LET index == Len(converted_dss)
        i == field.val
    IN CASE field.tag = "Default" -> Ok(default_series.val)
         [] field.tag = "Instant" -> Ok(field.val)
         [] field.tag = "Absolute" ->
              IF i > index THEN Err("Index larger then current index")
              ELSE IF i = 0 /\ overflow_checks
                   THEN Panic("attempt to subtract with overflow")
              ELSE Converted(converted_dss, IF i = 0 THEN UsizeMax ELSE i - 1)
         [] field.tag = "NegativeRelative" ->
              IF i >= index THEN Err("Index is out of range")
              ELSE Converted(converted_dss, index - i - 1)
         [] OTHER -> Err("Forward reference is not allowed")

SeriesInit ==
    /\ cache \in UNION {[1..n -> Fields] : n \in 1..MaxSeries}
    /\ sheet = <<>>
    /\ hist = <<>>
    /\ plotter = [pc |-> "converting"]
    /\ state_cache = NotRead
    /\ stdout = <<>>
    /\ nruns = 0

Converting(field, res) ==
    /\ hist' = Append(hist, [t |-> field, in |-> sheet, res |-> res])
    /\ sheet' = IF IsOk(res) THEN Append(sheet, res.val) ELSE sheet
    /\ plotter' = IF IsOk(res) THEN plotter ELSE [pc |-> "failed"]

\* Cli::convert_single_data_series on the next series of the command line.
ConvertSeries ==
    /\ plotter.pc = "converting"
    /\ Len(sheet) < Len(cache)
    /\ \E overflow_checks \in BOOLEAN :
          Converting(cache[Len(sheet) + 1],
                     convert_field(cache[Len(sheet) + 1], sheet, overflow_checks))
    /\ UNCHANGED <<cache, state_cache, stdout, nruns>>

\* The fold of Cli::convert_fields ends with the last series.
ConvertDone ==
    /\ plotter.pc = "converting"
    /\ Len(sheet) = Len(cache)
    /\ plotter' = [pc |-> "done"]
    /\ UNCHANGED <<sheet, hist, cache, state_cache, stdout, nruns>>

SeriesNext ==
    \/ ConvertSeries
    \/ ConvertDone

SpecSeries == SeriesInit /\ [][SeriesNext]_vars

\* C26: for the series at 1-based position c, rKEY=n with 1 <= n < c takes
\* the value of series n and rKEY=-n the value of series c - n; a forward
\* reference, the absolute reference 0, a reference to a series not yet
\* converted and a relative reference reaching before the first series are
\* rejected with an error, never with a crash or the value of another series.
C26_FieldReferences ==
    \A k \in 1..Len(hist) :
        LET c == Len(hist[k].in) + 1
            n == hist[k].t.val
            tag == hist[k].t.tag
            res == hist[k].res
        IN /\ res.tag # "Panic"
           /\ (tag = "Absolute" /\ n >= 1 /\ n < c) => res = Ok(hist[k].in[n])
           /\ (tag = "Absolute" /\ (n = 0 \/ n >= c)) => res.tag = "Err"
           /\ (tag = "NegativeRelative" /\ n < c) => res = Ok(hist[k].in[c - n])
           /\ (tag = "NegativeRelative" /\ n >= c) => res.tag = "Err"
           /\ tag = "PositiveRelative" => res.tag = "Err"

=============================================================================
